---- MODULE Spec2Model ----
(***************************************************************************)
(* A model of the command interpretation and dispatch core of DevOpsGPT:   *)
(* the State Store (devops_gpt_state.py: StateManager, AgentState) and the *)
(* Model Provider Chain (devops_gpt/llm_providers).                        *)
(***************************************************************************)
EXTENDS Integers, Sequences, FiniteSets, TLC

(***************************************************************************)
(* Bounds of the model.                                                    *)
(***************************************************************************)
\* caller threads of one StateManager in the concurrent scenario
MaxThreads == 2
\* operations issued in the concurrent scenario
MaxCalls == 3
\* seconds the wall clock may advance in the concurrent scenario
MaxClock == 1
\* failed file writes in a scenario with write failures
MaxIOErrors == 1
\* operations issued by the single caller of the retention scenario
MaxSeqCalls == 6
\* seconds the wall clock may advance in the retention scenario
MaxSeqClock == 5
\* operations issued by the single caller of the recovery and observer scenarios
MaxFewCalls == 2
\* process crashes followed by a restart
MaxCrashes == 1
\* observer callbacks registered over the store's lifetime
MaxObservers == 2
\* calls of generate_response on one provider
MaxLLMCalls == 2
\* calls of execute_command on one agent
MaxAgentCalls == 1
\* calls of process_command on one agent
MaxCoreCalls == 1
\* changes a caller makes to the dictionary to_dict returned
MaxMutations == 2
\* requests made through an entry point, lines typed at the prompt included
MaxFrontCalls == 2

(***************************************************************************)
(* Values.                                                                 *)
(***************************************************************************)
None == "None"
EmptyDict == [k \in {} |-> None]
DictSet(d, k, v) == [x \in (DOMAIN d) \cup {k} |-> IF x = k THEN v ELSE d[x]]

Threads == 1..MaxThreads

CONTEXT_UPDATED == "context_updated"
COMMAND_EXECUTED == "command_executed"
SESSION_STARTED == "session_started"
SESSION_ENDED == "session_ended"
ERROR_OCCURRED == "error_occurred"
StateChangeEvent ==
    {CONTEXT_UPDATED, COMMAND_EXECUTED, SESSION_STARTED, SESSION_ENDED, ERROR_OCCURRED}

\* the events observers are registered for in the model: those a StateManager notifies
ObservedEvents == {CONTEXT_UPDATED, COMMAND_EXECUTED, ERROR_OCCURRED}

\* inputs of the mutating operations
Contexts == {"production"}
Commands == {"restart frontend", "bad op"}
\* the record_command calls of the model: a command and whether it succeeded
Recordings == {<<"restart frontend", TRUE>>, <<"bad op", FALSE>>}
\* execution_time of a command, in tenths of a second
ExecTime(command) == IF command = "restart frontend" THEN 12 ELSE 3
Errors == {"boom"}
PluginNames == {"kubernetes"}
PluginData == {[replicas |-> 1]}
\* what a registered callback does when it is called
Callbacks == {"returns", "raises"}

VARIABLES
    running,      \* the process is alive and its StateManager constructed
    state,        \* StateManager.state, the in-memory AgentState
    lock,         \* StateManager._lock: 0 when free, else the thread that acquired it
    observers,    \* StateManager._observers: event -> sequence of callbacks
    pc,           \* per thread: the statement it is at
    cur,          \* per thread: the operation it is in, with its arguments
    notified,     \* per thread: the callbacks called during its current operation
    outcome,      \* per thread: how its last operation ended
    writeFailed,  \* per thread: a file write raised during its current operation
    primary,      \* the file agent_state.json
    backups,      \* the directory state_backups: file name -> file
    clock,        \* the wall clock, in seconds
    limits,       \* the scenario: how many threads, calls, seconds and write failures
    ioErrors,     \* failed file writes so far
    calls,        \* operations issued so far
    crashes,      \* crashes so far
    issued,       \* record_command calls issued in this process, in call order
    completed,    \* record_command calls that returned in this process
    saves,        \* the states written by the save_state calls that wrote a backup
    loadInfo      \* what _load_state found and chose at the last start

storeVars == <<running, state, lock, observers, pc, cur, notified, outcome, writeFailed, primary,
               backups, clock, limits, ioErrors, calls, crashes, issued, completed, saves,
               loadInfo>>

VARIABLES
    llm,          \* the LLMProvider object generate_response is called on
    llmConfig,    \* the config create_llm_provider made the object from, if it did
    llmPc,        \* the statement the call of generate_response is at
    llmReq,       \* the arguments of the call: prompt and max_tokens
    llmLog,       \* the provider requests made during the call, in order
    llmExc,       \* the exception being handled (the `e` of an except block)
    llmResult,    \* how the call ended: the text returned or the exception raised
    llmCalls      \* calls of generate_response so far

llmVars == <<llm, llmConfig, llmPc, llmReq, llmLog, llmExc, llmResult, llmCalls>>

VARIABLES
    agent,        \* the DevOpsGPT object of core/agent.py: its config and its plugins
    agentPc,      \* the statement the call of execute_command is at
    agentReq,     \* the arguments of the call: command and dry_run
    agentIntent,  \* the intent _parse_command returned
    agentPlugin,  \* the plugin _get_plugin_for_intent returned
    agentSteps,   \* what the call did so far, in order
    agentResult,  \* the dict execute_command returned
    agentCalls    \* calls of execute_command so far

agentVars == <<agent, agentPc, agentReq, agentIntent, agentPlugin, agentSteps, agentResult,
               agentCalls>>

VARIABLES
    core,         \* the DevOpsGPT object of devops_gpt_core.py: its plugins
    corePc,       \* the statement the call of process_command is at
    coreReq,      \* the arguments of the call: user_input and execution_mode
    coreCommand,  \* the Command parsed from user_input
    corePlugin,   \* the plugin whose can_handle accepted the command
    coreEffects,  \* what the plugins' execute did during the call, in order
    coreResult,   \* the ExecutionResult process_command returned
    coreCalls,    \* calls of process_command so far
    coreAudit,    \* DevOpsGPT.audit_log
    coreContext   \* DevOpsGPT.context, the SessionContext

coreVars == <<core, corePc, coreReq, coreCommand, corePlugin, coreEffects, coreResult,
              coreCalls, coreAudit, coreContext>>

VARIABLES
    frontPc,      \* the entry point a request came through and is being served by
    frontReq,     \* the request: its text and its mode name
    frontResponse,\* what the caller of the entry point received
    cli,          \* the interactive session: the lines entered and run_interactive's locals
    frontCalls    \* requests made and lines entered so far

frontVars == <<frontPc, frontReq, frontResponse, cli, frontCalls>>

VARIABLES
    objPc,        \* how far the conversion of an AgentState object has gone
    objState,     \* the AgentState object s
    objDict,      \* the dictionary s.to_dict() returned
    objLoaded,    \* the AgentState that from_dict made of the dictionary
    objBefore,    \* the value of s when it was built
    objMutations  \* changes made to the returned dictionary so far

objVars == <<objPc, objState, objDict, objLoaded, objBefore, objMutations>>

\* what the actions of one component leave alone
nonStoreVars == <<llmVars, agentVars, coreVars, frontVars, objVars>>
nonLLMVars == <<storeVars, agentVars, coreVars, frontVars, objVars>>
nonAgentVars == <<storeVars, llmVars, coreVars, frontVars, objVars>>
nonCoreVars == <<storeVars, llmVars, agentVars, frontVars, objVars>>
nonObjVars == <<storeVars, llmVars, agentVars, coreVars, frontVars>>
\* an entry point acts on the agent of devops_gpt_core.py
nonFrontVars == <<storeVars, llmVars, agentVars, objVars>>

vars == <<storeVars, llmVars, agentVars, coreVars, frontVars, objVars>>

(***************************************************************************)
(* AgentState                                                              *)
(***************************************************************************)
_create_initial_state(now) ==
    [current_context |-> "default",
     last_command |-> None,
     environment |-> "development",
     session_start |-> now,
     execution_history |-> <<>>,
     active_services |-> <<>>,
     resource_states |-> EmptyDict,
     error_count |-> 0,
     last_error |-> None,
     successful_commands |-> 0,
     failed_commands |-> 0,
     total_execution_time |-> 0,
     plugin_states |-> EmptyDict]

AgentStateFields == DOMAIN _create_initial_state(0)

\* asdict: a dictionary with one key per field
to_dict(s) == [f \in AgentStateFields |-> s[f]]
\* cls(**data): one field per key
from_dict(data) == [f \in DOMAIN data |-> data[f]]

(***************************************************************************)
(* Files.  A file is absent, holds a complete JSON document, or holds an   *)
(* incomplete one (opened for writing and truncated, or cut short).        *)
(***************************************************************************)
AbsentFile == [kind |-> "absent", data |-> EmptyDict, ctime |-> 0]
PartialFile(ct) == [kind |-> "partial", data |-> EmptyDict, ctime |-> ct]
FullFile(d, ct) == [kind |-> "full", data |-> d, ctime |-> ct]

\* json.load succeeds on the file
Parsable(f) == f.kind = "full"

\* os.path.getctime orders two files as they were last written.  The model keeps the
\* second of a file's last write; of two files written in the same second the one
\* created later was written later, and it has the later name.
CtimeBefore(dir, n, m) ==
    \/ dir[n].ctime < dir[m].ctime
    \/ dir[n].ctime = dir[m].ctime /\ n <= m

\* the file names of directory dir in the order sorted(..., key=os.path.getctime) gives
RECURSIVE SortByCtime(_, _)
SortByCtime(dir, names) ==
    IF names = {} THEN <<>>
    ELSE LET first == CHOOSE n \in names : \A m \in names : CtimeBefore(dir, n, m)
         IN <<first>> \o SortByCtime(dir, names \ {first})

_get_latest_backup(dir) ==
    LET sorted == SortByCtime(dir, DOMAIN dir)
    IN IF sorted # <<>> THEN sorted[Len(sorted)] ELSE -1

\* the default of _cleanup_old_backups' keep_last
keep_last == 5

\* unlink every file of backups[:-keep_last]
_cleanup_old_backups(dir) ==
    LET sorted == SortByCtime(dir, DOMAIN dir)
        old == {sorted[i] : i \in 1..(Len(sorted) - keep_last)}
    IN [n \in (DOMAIN dir) \ old |-> dir[n]]

\* _load_state: the state and the place it came from
_load_state(now) ==
    IF primary.kind # "absent"
    THEN IF Parsable(primary)
         THEN [from |-> "primary", state |-> from_dict(primary.data)]
         ELSE [from |-> "fresh", state |-> _create_initial_state(now)]
    ELSE LET latest_backup == _get_latest_backup(backups)
         IN IF latest_backup # -1
            THEN IF Parsable(backups[latest_backup])
                 THEN [from |-> "backup", state |-> from_dict(backups[latest_backup].data)]
                 ELSE [from |-> "fresh", state |-> _create_initial_state(now)]
            ELSE [from |-> "fresh", state |-> _create_initial_state(now)]

(***************************************************************************)
(* StateManager                                                            *)
(***************************************************************************)
NoOp == [name |-> "none", arg |-> None, success |-> FALSE, data |-> EmptyDict,
         backup_file |-> -1]
Op(name, arg, success, data) ==
    [name |-> name, arg |-> arg, success |-> success, data |-> data, backup_file |-> -1]

MutatingOps == {"update_context", "record_command", "record_error", "update_plugin_state"}

\* the event a mutating operation notifies after save_state; update_plugin_state has none
OwnEvent(name) ==
    CASE name = "update_context" -> CONTEXT_UPDATED
      [] name = "record_command" -> COMMAND_EXECUTED
      [] name = "record_error" -> ERROR_OCCURRED
      [] OTHER -> None

\* a record_error that would also overwrite last_command
ApplyUpdate_error_as_command(s, op, now) ==
    CASE op.name = "update_context" ->
            [s EXCEPT !.current_context = op.arg]
      [] op.name = "record_command" ->
            [s EXCEPT !.last_command = op.arg,
                      !.total_execution_time = @ + ExecTime(op.arg),
                      !.successful_commands = IF op.success THEN @ + 1 ELSE @,
                      !.failed_commands = IF op.success THEN @ ELSE @ + 1,
                      !.execution_history =
                          Append(@, [timestamp |-> now, command |-> op.arg,
                                     success |-> op.success,
                                     execution_time |-> ExecTime(op.arg)])]
      [] op.name = "record_error" ->
            [s EXCEPT !.error_count = @ + 1, !.last_error = op.arg,
                      !.last_command = op.arg]
      [] op.name = "update_plugin_state" ->
            [s EXCEPT !.plugin_states = DictSet(@, op.arg, op.data)]
      [] OTHER -> s

\* the statements of a mutating operation before its call of save_state
ApplyUpdate(s, op, now) ==
    CASE op.name = "update_context" ->
            [s EXCEPT !.current_context = op.arg]
      [] op.name = "record_command" ->
            [s EXCEPT !.last_command = op.arg,
                      !.total_execution_time = @ + ExecTime(op.arg),
                      !.successful_commands = IF op.success THEN @ + 1 ELSE @,
                      !.failed_commands = IF op.success THEN @ ELSE @ + 1,
                      !.execution_history =
                          Append(@, [timestamp |-> now, command |-> op.arg,
                                     success |-> op.success,
                                     execution_time |-> ExecTime(op.arg)])]
      [] op.name = "record_error" ->
            [s EXCEPT !.error_count = @ + 1, !.last_error = op.arg]
      [] op.name = "update_plugin_state" ->
            [s EXCEPT !.plugin_states = DictSet(@, op.arg, op.data)]
      [] OTHER -> s

\* _notify_observers: every callback of the event in registration order; a callback
\* that raises is caught and logged, and the loop goes on
RECURSIVE NotifyFrom(_, _, _)
NotifyFrom(event, cbs, i) ==
    IF i > Len(cbs) THEN <<>>
    ELSE <<[event |-> event, index |-> i, raised |-> (cbs[i] = "raises")]>>
         \o NotifyFrom(event, cbs, i + 1)

_notify_observers(event) == NotifyFrom(event, observers[event], 1)

NumObservers(obs, events) == LET RECURSIVE Sum(_)
                                 Sum(es) == IF es = {} THEN 0
                                            ELSE LET e == CHOOSE x \in es : TRUE
                                                 IN Len(obs[e]) + Sum(es \ {e})
                             IN Sum(events)

Idle(t) == running /\ t <= limits.threads /\ pc[t] = "idle" /\ calls < limits.calls

\* a thread enters an operation: it is at the operation's `with self._lock:`
Enter(t, op, at) ==
    /\ Idle(t)
    /\ cur' = [cur EXCEPT ![t] = op]
    /\ pc' = [pc EXCEPT ![t] = at]
    /\ notified' = [notified EXCEPT ![t] = <<>>]
    /\ outcome' = [outcome EXCEPT ![t] = "running"]
    /\ writeFailed' = [writeFailed EXCEPT ![t] = FALSE]
    /\ calls' = calls + 1
    /\ issued' = IF op.name = "record_command"
                 THEN Append(issued, [command |-> op.arg, success |-> op.success])
                 ELSE issued
    /\ UNCHANGED nonStoreVars
    /\ UNCHANGED <<running, state, lock, observers, primary, backups, clock, limits,
                   ioErrors, crashes, completed, saves, loadInfo>>

update_context(t) ==
    \E context \in Contexts : Enter(t, Op("update_context", context, FALSE, EmptyDict), "op_lock")

record_command(t) ==
    \E r \in Recordings :
        Enter(t, Op("record_command", r[1], r[2], EmptyDict), "op_lock")

record_error(t) ==
    \E error \in Errors : Enter(t, Op("record_error", error, FALSE, EmptyDict), "op_lock")

update_plugin_state(t) ==
    \E plugin_name \in PluginNames, state_data \in PluginData :
        Enter(t, Op("update_plugin_state", plugin_name, FALSE, state_data), "op_lock")

\* save_state called by the application itself
save_state(t) == Enter(t, Op("save_state", None, FALSE, EmptyDict), "save_lock")

\* threading.Lock.acquire: blocks while the lock is held, by whichever thread
LockFree == lock = 0

\* `with self._lock:` of a mutating operation or of save_state
AcquireLock(t) ==
    /\ running
    /\ pc[t] \in {"op_lock", "save_lock"}
    /\ LockFree
    /\ lock' = t
    /\ pc' = [pc EXCEPT ![t] = IF pc[t] = "op_lock" THEN "op_mutate" ELSE "save_primary"]
    /\ UNCHANGED nonStoreVars
    /\ UNCHANGED <<running, state, observers, cur, notified, outcome, writeFailed, primary, backups,
                   clock, limits, ioErrors, calls, crashes, issued, completed, saves,
                   loadInfo>>

\* the in-memory update, then the call of self.save_state()
Mutate(t) ==
    /\ running
    /\ pc[t] = "op_mutate"
    /\ state' = ApplyUpdate(state, cur[t], clock)
    /\ pc' = [pc EXCEPT ![t] = "save_lock"]
    /\ UNCHANGED nonStoreVars
    /\ UNCHANGED <<running, lock, observers, cur, notified, outcome, writeFailed, primary, backups,
                   clock, limits, ioErrors, calls, crashes, issued, completed, saves,
                   loadInfo>>

\* the outcomes of a file write: it succeeds, or (disk full, permissions, an object
\* json cannot serialise) it raises
WriteOutcomes == IF ioErrors < limits.io_errors THEN BOOLEAN ELSE {TRUE}

\* open(self.state_file, 'w'): the file is created or truncated
OpenPrimary(t) ==
    /\ running
    /\ pc[t] = "save_primary"
    /\ \E ok \in WriteOutcomes :
          /\ ioErrors' = IF ok THEN ioErrors ELSE ioErrors + 1
          /\ writeFailed' = [writeFailed EXCEPT ![t] = @ \/ ~ok]
          /\ primary' = IF ok THEN PartialFile(clock) ELSE primary
          /\ pc' = [pc EXCEPT ![t] = IF ok THEN "save_primary_dump" ELSE "save_except"]
    /\ UNCHANGED nonStoreVars
    /\ UNCHANGED <<running, state, lock, observers, cur, notified, outcome, backups,
                   clock, limits, calls, crashes, issued, completed, saves, loadInfo>>

\* json.dump(self.state.to_dict(), f, indent=2) and the close of the file
DumpPrimary(t) ==
    /\ running
    /\ pc[t] = "save_primary_dump"
    /\ \E ok \in WriteOutcomes :
          /\ ioErrors' = IF ok THEN ioErrors ELSE ioErrors + 1
          /\ writeFailed' = [writeFailed EXCEPT ![t] = @ \/ ~ok]
          /\ primary' = IF ok THEN FullFile(to_dict(state), clock)
                        ELSE PartialFile(clock)
          /\ pc' = [pc EXCEPT ![t] = IF ok THEN "save_backup" ELSE "save_except"]
    /\ UNCHANGED nonStoreVars
    /\ UNCHANGED <<running, state, lock, observers, cur, notified, outcome, backups,
                   clock, limits, calls, crashes, issued, completed, saves, loadInfo>>

\* state_backup_<%Y%m%d_%H%M%S>.json: the name is the clock's second
BackupFileName(now) == now

\* backup_file = ...; open(backup_file, 'w')
OpenBackup(t) ==
    /\ running
    /\ pc[t] = "save_backup"
    /\ \E ok \in WriteOutcomes :
          /\ ioErrors' = IF ok THEN ioErrors ELSE ioErrors + 1
          /\ writeFailed' = [writeFailed EXCEPT ![t] = @ \/ ~ok]
          /\ backups' = IF ok THEN DictSet(backups, BackupFileName(clock),
                                           PartialFile(clock))
                        ELSE backups
          /\ pc' = [pc EXCEPT ![t] = IF ok THEN "save_backup_dump" ELSE "save_except"]
    /\ cur' = [cur EXCEPT ![t].backup_file = BackupFileName(clock)]
    /\ UNCHANGED nonStoreVars
    /\ UNCHANGED <<running, state, lock, observers, notified, outcome, primary, clock,
                   limits, calls, crashes, issued, completed, saves, loadInfo>>

\* json.dump(self.state.to_dict(), f, indent=2) into the backup, and its close
DumpBackup(t) ==
    /\ running
    /\ pc[t] = "save_backup_dump"
    /\ \E ok \in WriteOutcomes :
          /\ ioErrors' = IF ok THEN ioErrors ELSE ioErrors + 1
          /\ writeFailed' = [writeFailed EXCEPT ![t] = @ \/ ~ok]
          /\ backups' = [backups EXCEPT ![cur[t].backup_file] =
                            IF ok THEN FullFile(to_dict(state), clock)
                            ELSE PartialFile(clock)]
          /\ pc' = [pc EXCEPT ![t] = IF ok THEN "save_cleanup" ELSE "save_except"]
    /\ UNCHANGED nonStoreVars
    /\ UNCHANGED <<running, state, lock, observers, cur, notified, outcome, primary,
                   clock, limits, calls, crashes, issued, completed, saves, loadInfo>>

\* self._cleanup_old_backups(), the last statement of save_state's try block
CleanupBackups(t) ==
    /\ running
    /\ pc[t] = "save_cleanup"
    /\ backups' = _cleanup_old_backups(backups)
    /\ saves' = Append(saves, to_dict(state))
    /\ pc' = [pc EXCEPT ![t] = "save_unlock"]
    /\ UNCHANGED nonStoreVars
    /\ UNCHANGED <<running, state, lock, observers, cur, notified, outcome, writeFailed, primary,
                   clock, limits, ioErrors, calls, crashes, issued, completed, loadInfo>>

\* save_state's except block (ERROR_OCCURRED), or the notification that follows
\* save_state in a mutating operation (its own event)
Notify(t) ==
    /\ running
    /\ pc[t] \in {"save_except", "op_notify"}
    /\ notified' = [notified EXCEPT ![t] =
                       @ \o _notify_observers(IF pc[t] = "save_except" THEN ERROR_OCCURRED
                                              ELSE OwnEvent(cur[t].name))]
    /\ pc' = [pc EXCEPT ![t] = IF pc[t] = "save_except" THEN "save_unlock" ELSE "op_unlock"]
    /\ UNCHANGED nonStoreVars
    /\ UNCHANGED <<running, state, lock, observers, cur, outcome, writeFailed, primary, backups,
                   clock, limits, ioErrors, calls, crashes, issued, completed, saves,
                   loadInfo>>

\* where a thread goes on after save_state has returned
AfterSave(op) ==
    IF op.name = "save_state" THEN "idle"
    ELSE IF OwnEvent(op.name) = None THEN "op_unlock" ELSE "op_notify"

\* the end of a `with self._lock:` block: Lock.release, which raises RuntimeError on
\* a lock that is not locked; the end of the outer block is the operation's return
ReleaseLock(t) ==
    /\ running
    /\ pc[t] \in {"save_unlock", "op_unlock"}
    /\ lock' = 0
    /\ LET next == IF pc[t] = "save_unlock" THEN AfterSave(cur[t]) ELSE "idle"
       IN /\ pc' = [pc EXCEPT ![t] = next]
          /\ outcome' = [outcome EXCEPT ![t] =
                            IF next # "idle" THEN @
                            ELSE IF lock = 0 THEN "raised" ELSE "returned"]
          /\ completed' = IF next = "idle" /\ cur[t].name = "record_command"
                          THEN [completed EXCEPT ![cur[t].success] = @ + 1]
                          ELSE completed
          /\ cur' = IF next = "idle" THEN [cur EXCEPT ![t] = NoOp] ELSE cur
    /\ UNCHANGED nonStoreVars
    /\ UNCHANGED <<running, state, observers, notified, writeFailed, primary, backups, clock,
                   limits, ioErrors, calls, crashes, issued, saves, loadInfo>>

\* the application registers its observers after constructing the store, before it
\* starts using it
register_observer ==
    /\ running
    /\ \A t \in Threads : outcome[t] = "none"
    /\ NumObservers(observers, StateChangeEvent) < MaxObservers
    /\ \E event \in ObservedEvents, callback \in Callbacks :
          observers' = [observers EXCEPT ![event] = Append(@, callback)]
    /\ UNCHANGED nonStoreVars
    /\ UNCHANGED <<running, state, lock, pc, cur, notified, outcome, writeFailed, primary, backups,
                   clock, limits, ioErrors, calls, crashes, issued, completed, saves,
                   loadInfo>>

\* a second of wall-clock time passes
Tick ==
    /\ clock < limits.clock
    /\ clock' = clock + 1
    /\ UNCHANGED nonStoreVars
    /\ UNCHANGED <<running, state, lock, observers, pc, cur, notified, outcome, writeFailed, primary,
                   backups, limits, ioErrors, calls, crashes, issued, completed, saves,
                   loadInfo>>

NoObservers == [e \in StateChangeEvent |-> <<>>]
NoneCompleted == [b \in BOOLEAN |-> 0]

\* the process dies (a crash, a kill, a cancellation): memory is lost, files stay
Crash ==
    /\ running
    /\ crashes < MaxCrashes
    /\ running' = FALSE
    /\ crashes' = crashes + 1
    /\ state' = _create_initial_state(0)
    /\ lock' = 0
    /\ observers' = NoObservers
    /\ pc' = [t \in Threads |-> "idle"]
    /\ cur' = [t \in Threads |-> NoOp]
    /\ notified' = [t \in Threads |-> <<>>]
    /\ outcome' = [t \in Threads |-> "none"]
    /\ writeFailed' = [t \in Threads |-> FALSE]
    /\ issued' = <<>>
    /\ completed' = NoneCompleted
    /\ saves' = <<>>
    /\ UNCHANGED nonStoreVars
    /\ UNCHANGED <<primary, backups, clock, limits, ioErrors, calls, loadInfo>>

\* what the start found on disk
Found(load) ==
    [from |-> load.from,
     state |-> load.state,
     primary |-> primary.kind,
     latest_backup |-> IF _get_latest_backup(backups) = -1 THEN AbsentFile
                       ELSE backups[_get_latest_backup(backups)]]

\* StateManager.__init__: a new lock, no observers, self.state = self._load_state()
Start ==
    /\ ~running
    /\ running' = TRUE
    /\ state' = _load_state(clock).state
    /\ loadInfo' = Found(_load_state(clock))
    /\ UNCHANGED nonStoreVars
    /\ UNCHANGED <<lock, observers, pc, cur, notified, outcome, writeFailed, primary, backups, clock,
                   limits, ioErrors, calls, crashes, issued, completed, saves>>

ThreadStep(t) ==
    \/ AcquireLock(t)
    \/ Mutate(t)
    \/ OpenPrimary(t)
    \/ DumpPrimary(t)
    \/ OpenBackup(t)
    \/ DumpBackup(t)
    \/ CleanupBackups(t)
    \/ Notify(t)
    \/ ReleaseLock(t)

(***************************************************************************)
(* Model providers (devops_gpt/llm_providers)                              *)
(***************************************************************************)
\* max_tokens=None
NoMaxTokens == -1
Prompts == {"parse: restart frontend", "parse: show logs"}
MaxTokens == {NoMaxTokens, 50, 500}

\* a provider object: its class, the module that defines the class, the provider it
\* asks first and the one it falls back to
Provider(class, module, first, second) ==
    [class |-> class, module |-> module, primary |-> first, secondary |-> second]

\* FallbackLLMProvider(primary, secondary)
FallbackProviders ==
    {Provider("FallbackLLMProvider", "llm_providers", pr[1], pr[2]) :
        pr \in {<<"openai", "ollama">>, <<"ollama", "openai">>}}
\* ollama_provider.OllamaProvider(..., fallback_provider=True | False)
OllamaProviders ==
    {Provider("OllamaProvider", "ollama_provider", "ollama", sec) : sec \in {"openai", "none"}}
\* OpenAIProvider and the OllamaProvider of llm_providers/__init__.py on their own
LeafProviders ==
    {Provider("OpenAIProvider", "llm_providers", "openai", "none"),
     Provider("OllamaProvider", "llm_providers", "ollama", "none")}
Providers == FallbackProviders \cup OllamaProviders \cup LeafProviders
NoProvider == Provider("none", "none", "none", "none")

\* the config dict given to create_llm_provider: the provider named, the fallback flag,
\* and whether an OpenAI API key is in the dict or in the environment
LLMConfig(provider, fallback, api_key) ==
    [provider |-> provider, fallback_provider |-> fallback, api_key |-> api_key]
LLMConfigs == {LLMConfig(provider, fallback, api_key) :
                  provider \in {"openai", "ollama"}, fallback \in BOOLEAN,
                  api_key \in BOOLEAN}
NoLLMConfig == LLMConfig("none", FALSE, FALSE)

\* create_llm_provider; NoProvider stands for the ValueError it raises
create_llm_provider(config) ==
    LET provider == config.provider
        fallback == config.fallback_provider
        openai_provider ==
            IF (provider = "openai" \/ fallback) /\ config.api_key
            THEN Provider("OpenAIProvider", "llm_providers", "openai", "none")
            ELSE NoProvider
        ollama_provider ==
            IF provider = "ollama" \/ fallback
            THEN Provider("OllamaProvider", "llm_providers", "ollama", "none")
            ELSE NoProvider
    IN CASE provider = "openai" /\ openai_provider # NoProvider ->
               IF fallback
               THEN Provider("FallbackLLMProvider", "llm_providers",
                             openai_provider.primary, ollama_provider.primary)
               ELSE openai_provider
         [] provider = "ollama" /\ ollama_provider # NoProvider -> ollama_provider
         [] fallback /\ ollama_provider # NoProvider -> ollama_provider
         [] OTHER -> NoProvider

get_name(p) ==
    IF p.class = "FallbackLLMProvider" THEN <<p.primary, "+", p.secondary>>
    ELSE <<p.primary>>

\* how one request to a provider's endpoint ends
Outcomes(provider) ==
    IF provider = "openai" THEN {"ok", "error"}
    ELSE {"ok", "status", "transport", "malformed"}

NoExc == [type |-> "none", by |-> "none", on |-> "none"]
\* the text a provider answers a prompt with
Response(provider, prompt) == [type |-> "text", by |-> provider, on |-> prompt]
\* the exception a failed request raises in the provider's generate_response
Exc(provider, result) ==
    [type |-> CASE result = "error" -> "OpenAIError"
                [] result = "status" -> "HTTPError"
                [] result = "transport" -> "RequestException"
                [] result = "malformed" -> "ValueError"
                [] OTHER -> "none",
     by |-> provider, on |-> result]

NoResult == [kind |-> "none", value |-> NoExc, context |-> NoExc]
Returns(text) == [kind |-> "returned", value |-> text, context |-> NoExc]
\* an exception raised while `handled` is being handled has it as its __context__
Raises(exc, handled) == [kind |-> "raised", value |-> exc, context |-> handled]

Request(provider, role, prompt, max_tokens, result) ==
    [provider |-> provider, role |-> role, prompt |-> prompt, max_tokens |-> max_tokens,
     outcome |-> result]

\* a call ends: its result is set and the provider is idle again
LLMEnds(result) ==
    /\ llmResult' = result
    /\ llmPc' = "idle"
    /\ llmExc' = NoExc

\* a call goes on at another statement, handling exception exc
LLMGoes(at, exc) ==
    /\ llmPc' = at
    /\ llmExc' = exc
    /\ UNCHANGED llmResult

generate_response ==
    /\ llmPc = "idle"
    /\ llm # NoProvider
    /\ llmCalls < MaxLLMCalls
    /\ \E prompt \in Prompts, max_tokens \in MaxTokens :
          llmReq' = [prompt |-> prompt, max_tokens |-> max_tokens]
    /\ llmPc' = "primary"
    /\ llmLog' = <<>>
    /\ llmExc' = NoExc
    /\ llmResult' = NoResult
    /\ llmCalls' = llmCalls + 1
    /\ UNCHANGED <<llm, llmConfig>>
    /\ UNCHANGED nonLLMVars

\* OpenAIProvider.generate_response, and the OllamaProvider.generate_response of
\* llm_providers/__init__.py: the text, or the request's exception raised again
LeafRequest(result) ==
    IF result = "ok" THEN LLMEnds(Returns(Response(llm.primary, llmReq.prompt)))
    ELSE LLMEnds(Raises(Exc(llm.primary, result), NoExc))

\* FallbackLLMProvider.generate_response: the try block
FallbackPrimary(result) ==
    IF result = "ok" THEN LLMEnds(Returns(Response(llm.primary, llmReq.prompt)))
    ELSE LLMGoes("secondary", Exc(llm.primary, result))

\* ollama_provider.OllamaProvider: _make_request, and the except block of
\* generate_response for what _make_request raises
OllamaMakeRequest(result) ==
    LET fallback_provider == llm.secondary # "none"
    IN CASE result = "ok" -> LLMEnds(Returns(Response("ollama", llmReq.prompt)))
         [] result = "status" ->
               IF fallback_provider THEN LLMGoes("fallback_in_request", NoExc)
               ELSE LLMEnds(Raises([type |-> "Exception", by |-> "ollama", on |-> result],
                                   NoExc))
         [] OTHER ->
               IF fallback_provider
               THEN LLMGoes("fallback_in_except", Exc("ollama", result))
               ELSE LLMEnds(Raises(Exc("ollama", result), NoExc))

\* the first request of a call: to the provider itself, or to the primary
PrimaryRequest ==
    /\ llmPc = "primary"
    /\ \E result \in Outcomes(llm.primary) :
          /\ llmLog' = Append(llmLog, Request(llm.primary, "primary", llmReq.prompt,
                                              llmReq.max_tokens, result))
          /\ CASE llm.class = "FallbackLLMProvider" -> FallbackPrimary(result)
               [] llm.module = "ollama_provider" -> OllamaMakeRequest(result)
               [] OTHER -> LeafRequest(result)
    /\ UNCHANGED <<llm, llmConfig, llmReq, llmCalls>>
    /\ UNCHANGED nonLLMVars

\* FallbackLLMProvider.generate_response, the except block: what the call of the
\* secondary gives is what the composite gives
FallbackSecondaryReraisesPrimary(result) ==
    IF result = "ok" THEN Returns(Response(llm.secondary, llmReq.prompt))
    ELSE Raises(llmExc, NoExc)

FallbackSecondary(result) ==
    IF result = "ok" THEN Returns(Response(llm.secondary, llmReq.prompt))
    ELSE Raises(Exc(llm.secondary, result), llmExc)

\* return await self.secondary.generate_response(prompt, max_tokens)
SecondaryRequest ==
    /\ llmPc = "secondary"
    /\ \E result \in Outcomes(llm.secondary) :
          /\ llmLog' = Append(llmLog, Request(llm.secondary, "secondary", llmReq.prompt,
                                              llmReq.max_tokens, result))
          /\ LLMEnds(FallbackSecondary(result))
    /\ UNCHANGED <<llm, llmConfig, llmReq, llmCalls>>
    /\ UNCHANGED nonLLMVars

\* _make_request on a status other than 200:
\* return await self._fallback.generate_response(prompt); what it raises is caught by
\* the except block of generate_response
FallbackInRequest ==
    /\ llmPc = "fallback_in_request"
    /\ \E result \in Outcomes(llm.secondary) :
          /\ llmLog' = Append(llmLog, Request(llm.secondary, "secondary", llmReq.prompt,
                                              NoMaxTokens, result))
          /\ IF result = "ok"
             THEN LLMEnds(Returns(Response(llm.secondary, llmReq.prompt)))
             ELSE LLMGoes("fallback_in_except", Exc(llm.secondary, result))
    /\ UNCHANGED <<llm, llmConfig, llmReq, llmCalls>>
    /\ UNCHANGED nonLLMVars

\* generate_response's except block:
\* return await self._fallback.generate_response(prompt)
FallbackInExcept ==
    /\ llmPc = "fallback_in_except"
    /\ \E result \in Outcomes(llm.secondary) :
          /\ llmLog' = Append(llmLog, Request(llm.secondary, "secondary", llmReq.prompt,
                                              NoMaxTokens, result))
          /\ IF result = "ok"
             THEN LLMEnds(Returns(Response(llm.secondary, llmReq.prompt)))
             ELSE LLMEnds(Raises(Exc(llm.secondary, result), llmExc))
    /\ UNCHANGED <<llm, llmConfig, llmReq, llmCalls>>
    /\ UNCHANGED nonLLMVars

\* no call is made on a provider
LLMUnused ==
    /\ llm = NoProvider
    /\ llmConfig = NoLLMConfig
    /\ llmPc = "idle"
    /\ llmReq = [prompt |-> "none", max_tokens |-> NoMaxTokens]
    /\ llmLog = <<>>
    /\ llmExc = NoExc
    /\ llmResult = NoResult
    /\ llmCalls = 0

(***************************************************************************)
(* The agent of devops_gpt/core/agent.py and its plugins                   *)
(* (devops_gpt/plugins)                                                    *)
(***************************************************************************)
\* str.lower() on the strings used here
Lower(s) ==
    CASE s = "Fetch_Logs" -> "fetch_logs"
      [] s = "Delete_Pod" -> "delete_pod"
      [] s = "CICD" -> "cicd"
      [] OTHER -> s

\* the dict the model's answer evaluates to: action, category, parameters
IntentActions == {"fetch_logs", "Fetch_Logs", "trigger_pipeline", "Delete_Pod"}
IntentCategories == {"troubleshooting", "CICD", "security"}
ParamNames == {"pod", "pipeline"}
\* the keys and the categories the parsing prompt asks for
SchemaKeys == {"action", "category", "parameters", "context"}
Taxonomy == {"troubleshooting", "cicd", "cloud", "cost", "security", "monitoring"}
\* a value eval can give: its Python type and, of a dict, its keys; action, category
\* and parameters are what intent.get(key, default) gives, the default ("" or {}) for
\* a key the dict lacks
Intent(action, category, parameters, keys) ==
    [type |-> "dict", action |-> action, category |-> category,
     parameters |-> parameters, keys |-> keys]
Intents == {Intent(action, category, parameters, SchemaKeys) :
                action \in IntentActions, category \in IntentCategories,
                parameters \in SUBSET ParamNames}
\* dicts that lack a key of the schema or name a category outside the taxonomy
MalformedIntents ==
    {Intent("", "troubleshooting", {"pod"}, SchemaKeys \ {"action"}),
     Intent("fetch_logs", "", {"pod"}, SchemaKeys \ {"category"}),
     Intent("fetch_logs", "troubleshooting", {}, SchemaKeys \ {"parameters"}),
     Intent("fetch_logs", "troubleshooting", {"pod"}, SchemaKeys \ {"context"}),
     Intent("fetch_logs", "database", {"pod"}, SchemaKeys)}
\* a value that is no dict, such as the list of the text "[1, 2]"
NotADict == [type |-> "list", action |-> "", category |-> "", parameters |-> {}, keys |-> {}]
NoIntent == [type |-> "none", action |-> "none", category |-> "none", parameters |-> {},
             keys |-> {}]

\* what the provider's answer to the parsing prompt can be: it raises, or returns an
\* empty text, a text that is no Python expression, the literal of a dict or of
\* another value, or an expression with a call in it whose value is a dict
ParseOutcomes == {"dict", "raises", "empty", "invalid", "malformed", "nondict", "expression"}

\* eval(content): it raises, or gives the expression's value after running the calls
\* the expression makes
eval(answer, value) ==
    CASE answer = "invalid" -> [raised |-> TRUE, value |-> NoIntent, ran_code |-> FALSE]
      [] answer = "expression" -> [raised |-> FALSE, value |-> value, ran_code |-> TRUE]
      [] OTHER -> [raised |-> FALSE, value |-> value, ran_code |-> FALSE]

\* the values the texts of one kind evaluate to
ValuesOf(answer) ==
    CASE answer \in {"dict", "expression"} -> Intents
      [] answer = "malformed" -> MalformedIntents
      [] answer = "nondict" -> {NotADict}
      [] OTHER -> {NoIntent}

PluginClasses == {"TroubleshootingPlugin", "CICDPlugin", "CostAnalysisPlugin",
                  "MonitoringPlugin"}

get_categories(plugin) ==
    CASE plugin = "TroubleshootingPlugin" -> {"troubleshooting"}
      [] plugin = "CICDPlugin" -> {"cicd"}
      [] plugin = "CostAnalysisPlugin" -> {"cost"}
      [] plugin = "MonitoringPlugin" -> {"monitoring"}

\* get_parameters: parameter name -> its "required" flag
get_parameters(plugin) ==
    CASE plugin = "TroubleshootingPlugin" -> ("pod" :> TRUE) @@ ("namespace" :> FALSE)
      [] plugin = "CICDPlugin" -> ("pipeline" :> TRUE) @@ ("branch" :> FALSE)
      [] plugin = "CostAnalysisPlugin" -> ("team" :> FALSE) @@ ("period" :> FALSE)
      [] plugin = "MonitoringPlugin" -> ("query" :> TRUE) @@ ("dashboard" :> FALSE)

\* BasePlugin.can_handle
can_handle(plugin, category) == category \in get_categories(plugin)

\* BasePlugin.validate_params
validate_params(plugin, params) ==
    LET required_params == {k \in DOMAIN get_parameters(plugin) : get_parameters(plugin)[k]}
    IN \A k \in required_params : k \in params

\* the actions a for which hasattr(self, "_" + a) holds
Handlers(plugin) ==
    CASE plugin = "TroubleshootingPlugin" -> {"fetch_logs"}
      [] plugin = "CICDPlugin" -> {"trigger_pipeline"}
      [] plugin = "CostAnalysisPlugin" -> {}
      [] plugin = "MonitoringPlugin" -> {"query_metrics"}

\* the plugins dict, in insertion order: what _load_plugins registers. Of the classes
\* in devops_gpt/plugins only TroubleshootingPlugin defines every abstract method of
\* BasePlugin; the others are registered once a concrete class completes them.
AgentRegistries ==
    {<<"TroubleshootingPlugin">>,
     <<"CICDPlugin", "CostAnalysisPlugin", "MonitoringPlugin", "TroubleshootingPlugin">>}

\* self.config: the Config object of utils/config.py, which has no get method, or a
\* mapping with a 'security' section holding the two lists
AgentConfig(kind, allowed, restricted) ==
    [kind |-> kind, allowed_actions |-> allowed, restricted_actions |-> restricted]
AgentConfigs ==
    {AgentConfig("Config", {}, {})}
    \cup {AgentConfig("mapping", allowed, restricted) :
            allowed \in SUBSET {"fetch_logs", "trigger_pipeline"},
            restricted \in SUBSET {"trigger_pipeline", "Delete_Pod"}}

_is_action_allowed(config, intent) ==
    LET action == Lower(intent.action)
    IN IF action \in config.restricted_actions THEN FALSE
       ELSE config.allowed_actions = {} \/ action \in config.allowed_actions

\* the first plugin, in the order of the dict, that can handle the intent's category
_get_plugin_for_intent(plugins, intent) ==
    LET category == Lower(intent.category)
        able == {i \in 1..Len(plugins) : can_handle(plugins[i], category)}
    IN IF able = {} THEN None
       ELSE plugins[CHOOSE i \in able : \A j \in able : i <= j]

\* the dict execute_command returns: success, error, and whether it has the keys
\* "dry_run" and "command"
AgentResult(success, error, dry_run, command) ==
    [success |-> success, error |-> error, dry_run |-> dry_run, command |-> command]
NoAgentResult == AgentResult(FALSE, "none", FALSE, FALSE)

\* one thing a call did: parsed, checked the policy, selected a plugin, or called a
\* plugin's execute, which rejected, previewed, found no handler or ran the handler
AgentStep(step, plugin, effect) == [step |-> step, plugin |-> plugin, effect |-> effect]

\* the call returns result after a last step
AgentEnds(step, result) ==
    /\ agentSteps' = Append(agentSteps, step)
    /\ agentResult' = result
    /\ agentPc' = "idle"

\* the call goes on at another statement after a step
AgentGoes(step, at) ==
    /\ agentSteps' = Append(agentSteps, step)
    /\ agentPc' = at
    /\ UNCHANGED agentResult

execute_command ==
    /\ agentPc = "idle"
    /\ agent.plugins # <<>>
    /\ agentCalls < MaxAgentCalls
    /\ \E dry_run \in BOOLEAN : agentReq' = [command |-> "user command", dry_run |-> dry_run]
    /\ agentPc' = "parse"
    /\ agentIntent' = NoIntent
    /\ agentPlugin' = None
    /\ agentSteps' = <<>>
    /\ agentResult' = NoAgentResult
    /\ agentCalls' = agentCalls + 1
    /\ UNCHANGED agent
    /\ UNCHANGED nonAgentVars

\* intent = await self._parse_command(command); what it raises is caught by
\* execute_command's except block
_parse_command ==
    /\ agentPc = "parse"
    /\ \E answer \in ParseOutcomes :
          IF answer \in {"raises", "empty"}
          THEN /\ UNCHANGED agentIntent
               /\ AgentEnds(AgentStep("parse", None, answer),
                            AgentResult(FALSE, "parse failed", FALSE, TRUE))
          ELSE \E value \in ValuesOf(answer) :
                  LET evaluated == eval(answer, value)
                  IN IF evaluated.raised
                     THEN /\ UNCHANGED agentIntent
                          /\ AgentEnds(AgentStep("parse", None, answer),
                                       AgentResult(FALSE, "parse failed", FALSE, TRUE))
                     ELSE /\ agentIntent' = evaluated.value
                          /\ AgentGoes(AgentStep("parse", None,
                                                 IF evaluated.ran_code THEN "ran code"
                                                 ELSE answer),
                                       "policy")
    /\ UNCHANGED <<agent, agentReq, agentPlugin, agentCalls>>
    /\ UNCHANGED nonAgentVars

\* if not self._is_action_allowed(intent): return the policy failure
CheckPolicy ==
    /\ agentPc = "policy"
    /\ CASE agentIntent.type # "dict" ->
              AgentEnds(AgentStep("policy", None, "AttributeError"),
                        AgentResult(FALSE, "'list' object has no attribute 'get'",
                                    FALSE, TRUE))
         [] agent.config.kind = "Config" ->
              AgentEnds(AgentStep("policy", None, "AttributeError"),
                        AgentResult(FALSE, "'Config' object has no attribute 'get'",
                                    FALSE, TRUE))
         [] ~_is_action_allowed(agent.config, agentIntent) ->
              AgentEnds(AgentStep("policy", None, "denied"),
                        AgentResult(FALSE, "Action not allowed by security policy",
                                    FALSE, FALSE))
         [] OTHER -> AgentGoes(AgentStep("policy", None, "allowed"), "select")
    /\ UNCHANGED <<agent, agentReq, agentIntent, agentPlugin, agentCalls>>
    /\ UNCHANGED nonAgentVars

\* plugin = self._get_plugin_for_intent(intent); if not plugin: return the failure
SelectPlugin ==
    /\ agentPc = "select"
    /\ LET plugin == _get_plugin_for_intent(agent.plugins, agentIntent)
       IN /\ agentPlugin' = plugin
          /\ IF plugin = None
             THEN AgentEnds(AgentStep("select", None, "none"),
                            AgentResult(FALSE, "No plugin found to handle this command",
                                        FALSE, FALSE))
             ELSE AgentGoes(AgentStep("select", plugin, "found"), "execute")
    /\ UNCHANGED <<agent, agentReq, agentIntent, agentCalls>>
    /\ UNCHANGED nonAgentVars

\* TroubleshootingPlugin.execute validates the parameters first; the execute of the
\* other plugins does not
ValidatesParams(plugin) == plugin = "TroubleshootingPlugin"

\* what plugin.execute(intent, dry_run) does, done saying whether the handler's
\* operation succeeded
PluginExecuteEffect(plugin, intent, dry_run) ==
    CASE ValidatesParams(plugin) /\ ~validate_params(plugin, intent.parameters) -> "rejected"
      [] dry_run -> "preview"
      [] intent.action \notin Handlers(plugin) -> "unsupported"
      [] OTHER -> "ran"

PluginExecuteResult(effect, done) ==
    CASE effect = "rejected" -> AgentResult(FALSE, "Missing required parameters", FALSE, TRUE)
      [] effect = "preview" -> AgentResult(TRUE, "none", TRUE, TRUE)
      [] effect = "unsupported" -> AgentResult(FALSE, "Action not supported", FALSE, TRUE)
      [] OTHER -> AgentResult(done, IF done THEN "none" ELSE "handler failed", FALSE, TRUE)

\* result = await plugin.execute(intent, dry_run=dry_run); result["command"] = command
PluginExecute ==
    /\ agentPc = "execute"
    /\ LET effect == PluginExecuteEffect(agentPlugin, agentIntent, agentReq.dry_run)
       IN \E done \in BOOLEAN :
             AgentEnds(AgentStep("execute", agentPlugin, effect),
                       PluginExecuteResult(effect, done))
    /\ UNCHANGED <<agent, agentReq, agentIntent, agentPlugin, agentCalls>>
    /\ UNCHANGED nonAgentVars

\* no agent is built
AgentUnused ==
    /\ agent = [config |-> AgentConfig("Config", {}, {}), plugins |-> <<>>]
    /\ agentPc = "idle"
    /\ agentReq = [command |-> "none", dry_run |-> TRUE]
    /\ agentIntent = NoIntent
    /\ agentPlugin = None
    /\ agentSteps = <<>>
    /\ agentResult = NoAgentResult
    /\ agentCalls = 0

(***************************************************************************)
(* The command parser of devops_gpt_core.py                                *)
(***************************************************************************)
\* A text is the sequence of its characters.
UpperCase == <<"A", "B", "C", "D", "E", "F", "G", "H", "I", "J", "K", "L", "M", "N", "O", "P", "Q", "R", "S", "T", "U", "V", "W", "X", "Y", "Z">>
LowerCase == <<"a", "b", "c", "d", "e", "f", "g", "h", "i", "j", "k", "l", "m", "n", "o", "p", "q", "r", "s", "t", "u", "v", "w", "x", "y", "z">>
Digits == <<"0", "1", "2", "3", "4", "5", "6", "7", "8", "9">>
\* the characters \w matches
WordChars == {UpperCase[i] : i \in DOMAIN UpperCase} \cup {LowerCase[i] : i \in DOMAIN LowerCase}
             \cup {Digits[i] : i \in DOMAIN Digits} \cup {"_"}
Whitespace == {" "}

\* str.lower()
LowerText(text) ==
    [i \in DOMAIN text |->
        IF \E k \in DOMAIN UpperCase : UpperCase[k] = text[i]
        THEN LowerCase[CHOOSE k \in DOMAIN UpperCase : UpperCase[k] = text[i]]
        ELSE text[i]]

\* str.strip()
StripText(text) ==
    LET solid == {i \in DOMAIN text : text[i] \notin Whitespace}
    IN IF solid = {} THEN <<>>
       ELSE SubSeq(text, CHOOSE i \in solid : \A j \in solid : i <= j,
                         CHOOSE i \in solid : \A j \in solid : i >= j)

\* the characters of word stand in text from position pos on
StartsWith(text, word, pos) ==
    /\ pos + Len(word) - 1 <= Len(text)
    /\ \A i \in DOMAIN word : text[pos + i - 1] = word[i]

\* word in text
Contains(text, word) == \E pos \in 1..(Len(text) + 1) : StartsWith(text, word, pos)

Largest(S) == CHOOSE n \in S : \A m \in S : m <= n
Smallest(S) == CHOOSE n \in S : \A m \in S : n <= m

\* The items of a regular expression: literal characters, .* , a named group of word
\* characters (?P<name>\w+), and a named group of alternatives (?P<name>a|b|c).
Lit(chars) == [kind |-> "lit", name |-> "", chars |-> chars, options |-> <<>>]
AnyStar == [kind |-> "any", name |-> "", chars |-> <<>>, options |-> <<>>]
WordGroup(name) == [kind |-> "word", name |-> name, chars |-> <<>>, options |-> <<>>]
AltGroup(name, options) == [kind |-> "alt", name |-> name, chars |-> <<>>, options |-> options]

NoMatch == [ok |-> FALSE, groups |-> EmptyDict]

\* the length of the run of word characters of text that starts at pos
RECURSIVE WordRun(_, _)
WordRun(text, pos) ==
    IF pos <= Len(text) /\ text[pos] \in WordChars THEN 1 + WordRun(text, pos + 1) ELSE 0

\* The match of the items k.. of pattern at position pos of text, as the regex engine
\* finds it: .* and \w+ take as many characters as the rest of the pattern allows
\* (greedy, backtracking), alternatives are tried in the order written.
RECURSIVE MatchFrom(_, _, _, _)
MatchFrom(text, pattern, k, pos) ==
    IF k > Len(pattern) THEN [ok |-> TRUE, groups |-> EmptyDict]
    ELSE LET item == pattern[k]
             rest(n) == MatchFrom(text, pattern, k + 1, pos + n)
         IN CASE item.kind = "lit" ->
                    IF StartsWith(text, item.chars, pos) THEN rest(Len(item.chars))
                    ELSE NoMatch
              [] item.kind = "any" ->
                    LET fits == {n \in 0..(Len(text) + 1 - pos) : rest(n).ok}
                    IN IF fits = {} THEN NoMatch ELSE rest(Largest(fits))
              [] item.kind = "word" ->
                    LET fits == {n \in 1..WordRun(text, pos) : rest(n).ok}
                    IN IF fits = {} THEN NoMatch
                       ELSE LET n == Largest(fits)
                            IN [ok |-> TRUE,
                                groups |-> DictSet(rest(n).groups, item.name,
                                                   SubSeq(text, pos, pos + n - 1))]
              [] OTHER ->
                    LET fits == {o \in DOMAIN item.options :
                                    /\ StartsWith(text, item.options[o], pos)
                                    /\ rest(Len(item.options[o])).ok}
                    IN IF fits = {} THEN NoMatch
                       ELSE LET chosen == item.options[Smallest(fits)]
                            IN [ok |-> TRUE,
                                groups |-> DictSet(rest(Len(chosen)).groups, item.name,
                                                   chosen)]

\* re.search(pattern, text): the match at the leftmost position that has one
re_search(pattern, text) ==
    LET starts == {pos \in 1..(Len(text) + 1) : MatchFrom(text, pattern, 1, pos).ok}
    IN IF starts = {} THEN NoMatch ELSE MatchFrom(text, pattern, 1, Smallest(starts))

\* TaskCategory
TROUBLESHOOTING == "troubleshooting"
CICD == "cicd"
CLOUD_PROVISIONING == "cloud_provisioning"
COST_USAGE == "cost_usage"
SECURITY_COMPLIANCE == "security_compliance"
MONITORING_ALERTS == "monitoring_alerts"
TaskCategory == {TROUBLESHOOTING, CICD, CLOUD_PROVISIONING, COST_USAGE, SECURITY_COMPLIANCE,
                 MONITORING_ALERTS}

\* ExecutionMode
DRY_RUN == "dry_run"
CONFIRM == "confirm"
EXECUTE == "execute"
ExecutionMode == {DRY_RUN, CONFIRM, EXECUTE}

IntentPattern(pattern, intent, category) ==
    [pattern |-> pattern, intent |-> intent, category |-> category]

\* CommandParser.intent_patterns, in the order of the dict
intent_patterns ==
    << \* show.*logs.*from.*(?P<service>\w+)
       IntentPattern(<<Lit(<<"s", "h", "o", "w">>), AnyStar, Lit(<<"l", "o", "g", "s">>), AnyStar, Lit(<<"f", "r", "o", "m">>), AnyStar,
                       WordGroup("service")>>, "show_logs", TROUBLESHOOTING),
       \* restart.*(?P<service>\w+)
       IntentPattern(<<Lit(<<"r", "e", "s", "t", "a", "r", "t">>), AnyStar, WordGroup("service")>>,
                     "restart_service", TROUBLESHOOTING),
       \* health.*check.*(?P<service>\w+)
       IntentPattern(<<Lit(<<"h", "e", "a", "l", "t", "h">>), AnyStar, Lit(<<"c", "h", "e", "c", "k">>), AnyStar, WordGroup("service")>>,
                     "health_check", TROUBLESHOOTING),
       \* trigger.*(?P<pipeline>\w+).*pipeline
       IntentPattern(<<Lit(<<"t", "r", "i", "g", "g", "e", "r">>), AnyStar, WordGroup("pipeline"), AnyStar, Lit(<<"p", "i", "p", "e", "l", "i", "n", "e">>)>>,
                     "trigger_pipeline", CICD),
       \* rollback.*(?P<service>\w+)
       IntentPattern(<<Lit(<<"r", "o", "l", "l", "b", "a", "c", "k">>), AnyStar, WordGroup("service")>>,
                     "rollback_deployment", CICD),
       \* create.*(?P<resource_type>ec2|vm|instance)
       IntentPattern(<<Lit(<<"c", "r", "e", "a", "t", "e">>), AnyStar,
                       AltGroup("resource_type", <<<<"e", "c", "2">>, <<"v", "m">>, <<"i", "n", "s", "t", "a", "n", "c", "e">>>>)>>,
                     "create_instance", CLOUD_PROVISIONING),
       \* show.*cost.*(?P<service>\w+)
       IntentPattern(<<Lit(<<"s", "h", "o", "w">>), AnyStar, Lit(<<"c", "o", "s", "t">>), AnyStar, WordGroup("service")>>,
                     "analyze_cost", COST_USAGE),
       \* check.*(?P<security_type>ports|cve|vulnerabilities)
       IntentPattern(<<Lit(<<"c", "h", "e", "c", "k">>), AnyStar,
                       AltGroup("security_type", <<<<"p", "o", "r", "t", "s">>, <<"c", "v", "e">>, <<"v", "u", "l", "n", "e", "r", "a", "b", "i", "l", "i", "t", "i", "e", "s">>>>)>>,
                     "security_scan", SECURITY_COMPLIANCE) >>

\* Command; confidence in tenths
Command(intent, category, parameters, raw_input, confidence, dry_run) ==
    [intent |-> intent, category |-> category, parameters |-> parameters,
     raw_input |-> raw_input, confidence |-> confidence, dry_run |-> dry_run]

\* the patterns, in order, that re.search finds in the text
MatchingPatterns(text) ==
    {i \in DOMAIN intent_patterns : re_search(intent_patterns[i].pattern, text).ok}

\* parse as it would be if the last matching pattern won
parse_last_match(user_input) ==
    LET text == LowerText(StripText(user_input))
        found == MatchingPatterns(text)
    IN IF found # {}
       THEN LET config == intent_patterns[Largest(found)]
            IN Command(config.intent, config.category,
                       re_search(config.pattern, text).groups, text, 8, TRUE)
       ELSE Command("unknown", TROUBLESHOOTING, EmptyDict, text, 1, TRUE)

\* CommandParser.parse
parse(user_input) ==
    LET text == LowerText(StripText(user_input))
        found == MatchingPatterns(text)
    IN IF found # {}
       THEN LET config == intent_patterns[Smallest(found)]
            IN Command(config.intent, config.category,
                       re_search(config.pattern, text).groups, text, 8, TRUE)
       ELSE Command("unknown", TROUBLESHOOTING, EmptyDict, text, 1, TRUE)

\* what the user types
UserInputs ==
    { <<"s", "h", "o", "w", " ", "l", "o", "g", "s", " ", "f", "r", "o", "m", " ", "f", "r", "o", "n", "t", "e", "n", "d">>,
      <<" ", "R", "e", "s", "t", "a", "r", "t", " ", "a", "p", "i">>,
      <<"r", "o", "l", "l", "b", "a", "c", "k", " ", "p", "o", "d", "s", " ", "w", "e", "b">>,
      <<"s", "h", "o", "w", " ", "l", "o", "g", "s", " ", "t", "h", "e", "n", " ", "r", "e", "s", "t", "a", "r", "t", " ", "f", "r", "o", "m", " ", "d", "b">>,
      <<"c", "h", "e", "c", "k", " ", "p", "o", "r", "t", "s">>,
      <<"s", "t", "a", "t", "u", "s">>,
      <<"s", "h", "o", "w", " ", "c", "o", "s", "t", " ", "f", "o", "r", " ", "e", "c", "2">> }

(***************************************************************************)
(* The agent of devops_gpt_core.py and the plugins of devops_gpt_plugins.py *)
(***************************************************************************)
\* BasePlugin.category, by plugin name
plugin_category(plugin) ==
    CASE plugin = "troubleshooting" -> TROUBLESHOOTING
      [] plugin = "aws" -> CLOUD_PROVISIONING
      [] plugin = "kubernetes" -> TROUBLESHOOTING
      [] plugin = "monitoring" -> MONITORING_ALERTS
      [] plugin = "security" -> SECURITY_COMPLIANCE
      [] plugin = "cicd" -> CICD

aws_intents == {"create_ec2_instance", "list_ec2_instances", "terminate_instance",
                "analyze_cost"}
k8s_keywords == {<<"p", "o", "d">>, <<"d", "e", "p", "l", "o", "y", "m", "e", "n", "t">>, <<"s", "e", "r", "v", "i", "c", "e">>, <<"n", "a", "m", "e", "s", "p", "a", "c", "e">>, <<"k", "u", "b", "e", "c", "t", "l">>}
monitoring_keywords == {<<"m", "e", "t", "r", "i", "c", "s">>, <<"a", "l", "e", "r", "t", "s">>, <<"c", "p", "u">>, <<"m", "e", "m", "o", "r", "y">>, <<"p", "r", "o", "m", "e", "t", "h", "e", "u", "s">>, <<"g", "r", "a", "f", "a", "n", "a">>}
security_keywords == {<<"s", "c", "a", "n">>, <<"v", "u", "l", "n", "e", "r", "a", "b", "i", "l", "i", "t", "y">>, <<"s", "e", "c", "u", "r", "i", "t", "y">>, <<"c", "o", "m", "p", "l", "i", "a", "n", "c", "e">>, <<"a", "u", "d", "i", "t">>, <<"c", "v", "e">>, <<"p", "o", "r", "t", "s">>}
cicd_keywords == {<<"p", "i", "p", "e", "l", "i", "n", "e">>, <<"d", "e", "p", "l", "o", "y">>, <<"b", "u", "i", "l", "d">>, <<"r", "o", "l", "l", "b", "a", "c", "k">>, <<"r", "e", "l", "e", "a", "s", "e">>, <<"j", "e", "n", "k", "i", "n", "s">>, <<"g", "i", "t", "h", "u", "b">>, <<"g", "i", "t", "l", "a", "b">>}

HasKeyword(command, keywords) ==
    \E keyword \in keywords : Contains(LowerText(command.raw_input), keyword)
Mentions(command, word) == Contains(LowerText(command.raw_input), word)

\* the can_handle of each plugin class
plugin_can_handle(plugin, command) ==
    CASE plugin = "troubleshooting" -> command.category = TROUBLESHOOTING
      [] plugin = "aws" -> command.intent \in aws_intents \/ Mentions(command, <<"e", "c", "2">>)
      [] plugin = "kubernetes" -> HasKeyword(command, k8s_keywords)
      [] plugin = "monitoring" -> HasKeyword(command, monitoring_keywords)
      [] plugin = "security" -> HasKeyword(command, security_keywords)
      [] plugin = "cicd" -> HasKeyword(command, cicd_keywords)

\* the handler method the execute of each plugin class calls for a command, or
\* "unsupported" when it has no branch for it
plugin_handler(plugin, command) ==
    CASE plugin = "troubleshooting" ->
            IF command.intent \in {"show_logs", "restart_service", "health_check"}
            THEN command.intent ELSE "unsupported"
      [] plugin = "aws" ->
            IF command.intent \in aws_intents THEN command.intent ELSE "unsupported"
      [] plugin = "kubernetes" ->
            CASE Mentions(command, <<"p", "o", "d", "s">>) -> "get_pods"
              [] Mentions(command, <<"d", "e", "s", "c", "r", "i", "b", "e">>) -> "describe_pod"
              [] Mentions(command, <<"s", "c", "a", "l", "e">>) -> "scale_deployment"
              [] Mentions(command, <<"n", "a", "m", "e", "s", "p", "a", "c", "e">>) -> "create_namespace"
              [] OTHER -> "unsupported"
      [] plugin = "monitoring" ->
            CASE Mentions(command, <<"m", "e", "t", "r", "i", "c", "s">>) -> "show_metrics"
              [] Mentions(command, <<"a", "l", "e", "r", "t", "s">>) -> "check_alerts"
              [] Mentions(command, <<"c", "p", "u">>) -> "cpu_usage"
              [] OTHER -> "unsupported"
      [] plugin = "security" ->
            CASE Mentions(command, <<"v", "u", "l", "n", "e", "r", "a", "b", "i", "l", "i", "t", "y">>) \/ Mentions(command, <<"c", "v", "e">>) -> "vulnerability_scan"
              [] Mentions(command, <<"p", "o", "r", "t", "s">>) -> "port_scan"
              [] Mentions(command, <<"c", "o", "m", "p", "l", "i", "a", "n", "c", "e">>) -> "compliance_audit"
              [] Mentions(command, <<"c", "e", "r", "t", "i", "f", "i", "c", "a", "t", "e">>) -> "cert_check"
              [] OTHER -> "unsupported"
      [] plugin = "cicd" ->
            CASE Mentions(command, <<"t", "r", "i", "g", "g", "e", "r">>) /\ Mentions(command, <<"p", "i", "p", "e", "l", "i", "n", "e">>) -> "trigger_pipeline"
              [] Mentions(command, <<"r", "o", "l", "l", "b", "a", "c", "k">>) -> "rollback_deployment"
              [] Mentions(command, <<"d", "e", "p", "l", "o", "y">>) -> "deploy_service"
              [] Mentions(command, <<"b", "u", "i", "l", "d">>) /\ Mentions(command, <<"s", "t", "a", "t", "u", "s">>) -> "build_status"
              [] OTHER -> "unsupported"

\* what a handler method does when the command is not a dry run: it runs a shell
\* command, calls the API of a cluster or a cloud, or computes canned data; the methods
\* execute names without the class defining them are missing
handler_operation(plugin, handler) ==
    CASE plugin = "troubleshooting" -> "shell"
      [] plugin = "aws" /\ handler \in {"create_ec2_instance", "list_ec2_instances"} -> "api"
      [] plugin = "kubernetes" /\ handler \in {"get_pods", "scale_deployment"} -> "api"
      [] plugin = "monitoring" /\ handler \in {"show_metrics", "check_alerts"} -> "canned"
      [] plugin = "security" /\ handler \in {"vulnerability_scan", "port_scan"} -> "canned"
      [] plugin = "cicd" /\ handler \in {"trigger_pipeline", "rollback_deployment"} -> "canned"
      [] OTHER -> "missing"

\* ExecutionResult.metadata: None, or a dict with these keys
NoMetadata == [none |-> TRUE, keys |-> {}]
Metadata(keys) == [none |-> FALSE, keys |-> keys]

\* ExecutionResult: success, whether error and command_executed are set, and metadata
ExecutionResult(success, error, command_executed, metadata) ==
    [success |-> success, error |-> error, command_executed |-> command_executed,
     metadata |-> metadata]
NoExecutionResult == ExecutionResult(FALSE, FALSE, FALSE, NoMetadata)

\* execute as it would be if the handlers did not look at command.dry_run
plugin_effect_without_dry_run(plugin, command, kube) ==
    LET handler == plugin_handler(plugin, command)
        operation == handler_operation(plugin, handler)
    IN CASE plugin = "kubernetes" /\ ~kube -> "not_configured"
         [] handler = "unsupported" -> "unsupported"
         [] OTHER -> operation

\* what plugin.execute(command) does: "unsupported", "not_configured", "missing" (the
\* AttributeError is caught by execute), "preview", or the handler's operation
plugin_effect(plugin, command, kube) ==
    LET handler == plugin_handler(plugin, command)
        operation == handler_operation(plugin, handler)
    IN CASE plugin = "kubernetes" /\ ~kube -> "not_configured"
         [] handler = "unsupported" -> "unsupported"
         [] operation = "missing" -> "missing"
         [] command.dry_run -> "preview"
         [] OTHER -> operation

\* the result execute returns, done saying whether the operation went well
plugin_result(effect, done) ==
    CASE effect = "preview" -> ExecutionResult(TRUE, FALSE, TRUE, NoMetadata)
      [] effect = "shell" -> ExecutionResult(done, ~done, TRUE, NoMetadata)
      [] effect = "api" ->
            IF done THEN ExecutionResult(TRUE, FALSE, FALSE, Metadata({"response"}))
            ELSE ExecutionResult(FALSE, TRUE, FALSE, NoMetadata)
      [] effect = "canned" -> ExecutionResult(TRUE, FALSE, FALSE, Metadata({"data"}))
      [] OTHER -> ExecutionResult(FALSE, TRUE, FALSE, NoMetadata)

\* DevOpsGPT.plugins, in registration order, and whether the Kubernetes client could be
\* configured: DevOpsGPT() itself, and ExtendedDevOpsGPT with and without the plugins
\* whose construction may fail
CoreRegistries ==
    {[plugins |-> <<"troubleshooting">>, kube |-> FALSE],
     [plugins |-> <<"troubleshooting", "monitoring", "security", "cicd">>, kube |-> FALSE],
     [plugins |-> <<"troubleshooting", "aws", "kubernetes", "monitoring", "security", "cicd">>,
      kube |-> FALSE],
     [plugins |-> <<"troubleshooting", "aws", "kubernetes", "monitoring", "security", "cicd">>,
      kube |-> TRUE]}

NoCommand == Command("none", "none", EmptyDict, <<>>, 0, TRUE)
NoSessionContext == [current_service |-> None, history |-> <<>>]

\* SessionContext.update_context
context_update(context, command, result) ==
    [current_service |-> IF "service" \in DOMAIN command.parameters
                         THEN command.parameters["service"]
                         ELSE context.current_service,
     history |-> Append(context.history,
                        [intent |-> command.intent, success |-> result.success])]

\* DevOpsGPT._audit_log
_audit_log(log, command) ==
    Append(log, [intent |-> command.intent, category |-> command.category])

\* process_command up to the loop: parse, set dry_run from the mode, write the audit
\* entry
BeginProcess(user_input, execution_mode) ==
    LET parsed == parse(user_input)
        command == [parsed EXCEPT !.dry_run = (execution_mode = DRY_RUN)]
    IN /\ coreReq' = [user_input |-> user_input, execution_mode |-> execution_mode]
       /\ coreCommand' = command
       /\ coreAudit' = _audit_log(coreAudit, command)
       /\ corePc' = "route"
       /\ corePlugin' = None
       /\ coreEffects' = <<>>
       /\ coreResult' = NoExecutionResult
       /\ coreCalls' = coreCalls + 1
       /\ UNCHANGED <<core, coreContext>>

\* process_command called directly on the agent
process_command ==
    /\ corePc = "idle"
    /\ core.plugins # <<>>
    /\ coreCalls < MaxCoreCalls
    /\ \E user_input \in UserInputs, execution_mode \in ExecutionMode :
          BeginProcess(user_input, execution_mode)
    /\ UNCHANGED nonCoreVars

\* for plugin in self.plugins: if await plugin.can_handle(command)
FirstAble(plugins, command) ==
    LET able == {i \in DOMAIN plugins : plugin_can_handle(plugins[i], command)}
    IN IF able = {} THEN None ELSE plugins[Smallest(able)]

\* the loop finds the plugin to call, or ends without one and the no-plugin result is
\* returned
RoutePlugin ==
    /\ corePc = "route"
    /\ LET plugin == FirstAble(core.plugins, coreCommand)
       IN /\ corePlugin' = plugin
          /\ IF plugin = None
             THEN /\ coreResult' = ExecutionResult(FALSE, TRUE, FALSE, NoMetadata)
                  /\ corePc' = "idle"
             ELSE /\ UNCHANGED coreResult
                  /\ corePc' = "execute"
    /\ UNCHANGED <<core, coreReq, coreCommand, coreEffects, coreCalls, coreAudit, coreContext>>
    /\ UNCHANGED nonCoreVars

\* result = await plugin.execute(command); self.context.update_context(command, result);
\* return result
ExecutePlugin ==
    /\ corePc = "execute"
    /\ LET effect == plugin_effect(corePlugin, coreCommand, core.kube)
       IN \E done \in BOOLEAN :
             LET result == plugin_result(effect, done)
             IN /\ coreEffects' = Append(coreEffects,
                                         [plugin |-> corePlugin,
                                          handler |-> plugin_handler(corePlugin, coreCommand),
                                          effect |-> effect])
                /\ coreResult' = result
                /\ coreContext' = context_update(coreContext, coreCommand, result)
    /\ corePc' = "idle"
    /\ UNCHANGED <<core, coreReq, coreCommand, corePlugin, coreCalls, coreAudit>>
    /\ UNCHANGED nonCoreVars

\* no agent of devops_gpt_core.py is built
CoreUnused ==
    /\ core = [plugins |-> <<>>, kube |-> FALSE]
    /\ corePc = "idle"
    /\ coreReq = [user_input |-> <<>>, execution_mode |-> DRY_RUN]
    /\ coreCommand = NoCommand
    /\ corePlugin = None
    /\ coreEffects = <<>>
    /\ coreResult = NoExecutionResult
    /\ coreCalls = 0
    /\ coreAudit = <<>>
    /\ coreContext = NoSessionContext

(***************************************************************************)
(* AgentState objects (devops_gpt_state.py).  A Python object has an       *)
(* identity: two names may refer to one list or dict, and a change made    *)
(* through one name is seen through the other.  A container carries its    *)
(* identity as id; an atom (str, int, float, bool, None) is immutable.     *)
(***************************************************************************)
Atom(v) == [kind |-> "atom", id |-> 0, items |-> <<>>, v |-> v]
Container(kind, id, items) == [kind |-> kind, id |-> id, items |-> items, v |-> None]
NoObject == Container("none", 0, <<>>)

\* the identity of the n-th object made from the object of identity id
NewId(id, n) == id + 100 * n

\* the AgentState object whose fields hold the values of the record s: the lists and
\* dicts of its fields, and the dicts in them, are objects of their own
Object(s) ==
    Container("AgentState", 1,
        [f \in AgentStateFields |->
            CASE f = "execution_history" ->
                    Container("list", 2,
                        [i \in 1..Len(s[f]) |->
                            Container("dict", 10 + i,
                                [k \in DOMAIN s[f][i] |-> Atom(s[f][i][k])])])
              [] f = "active_services" ->
                    Container("list", 3, [i \in 1..Len(s[f]) |-> Atom(s[f][i])])
              [] f = "resource_states" ->
                    Container("dict", 4, [k \in DOMAIN s[f] |-> Atom(s[f][k])])
              [] f = "plugin_states" ->
                    Container("dict", 5,
                        [name \in DOMAIN s[f] |->
                            Container("dict", 20,
                                [k \in DOMAIN s[f][name] |-> Atom(s[f][name][k])])])
              [] OTHER -> Atom(s[f])])

\* the value of an object, as == compares it: identities do not count
RECURSIVE Value(_)
Value(obj) ==
    IF obj.kind = "atom" THEN obj.v
    ELSE [k \in DOMAIN obj.items |-> Value(obj.items[k])]

\* the identities of the containers reachable from an object
RECURSIVE Ids(_)
Ids(obj) ==
    IF obj.kind = "atom" THEN {}
    ELSE {obj.id} \cup UNION {Ids(obj.items[k]) : k \in DOMAIN obj.items}

\* dataclasses._asdict_inner: a dataclass instance becomes a new dict of its fields, a
\* list a new list, a dict a new dict, each of converted members; an atom is itself
RECURSIVE _asdict_inner(_, _)
_asdict_inner(obj, n) ==
    IF obj.kind = "atom" THEN obj
    ELSE Container(IF obj.kind = "AgentState" THEN "dict" ELSE obj.kind,
                   NewId(obj.id, n),
                   [k \in DOMAIN obj.items |-> _asdict_inner(obj.items[k], n)])

\* a dict of the fields that holds the very objects the fields hold
asdict_of_fields_only(obj, n) == Container("dict", NewId(obj.id, n), obj.items)

\* AgentState.to_dict: return asdict(self)
asdict(obj, n) == _asdict_inner(obj, n)

\* AgentState.from_dict: cls(**data), a new instance whose fields hold the objects
\* that are the values of data
cls(data, n) == Container("AgentState", NewId(data.id, n), data.items)

\* a change made to one container: an item appended to a list, a key set in a dict
MutationKeys == {"mutated", "current_context"}
Mutated(obj, key) ==
    IF obj.kind = "list" THEN Append(obj.items, Atom("mutated"))
    ELSE DictSet(obj.items, key, Atom("mutated"))

\* an object after the container of identity id has been changed: whatever refers to
\* that container sees the change
RECURSIVE AfterMutation(_, _, _)
AfterMutation(obj, id, key) ==
    IF obj.kind \in {"atom", "none"} THEN obj
    ELSE LET members == [k \in DOMAIN obj.items |-> AfterMutation(obj.items[k], id, key)]
             changed == [obj EXCEPT !.items = members]
         IN IF obj.id = id THEN [changed EXCEPT !.items = Mutated(changed, key)]
            ELSE changed

\* the AgentState values the conversions are applied to: the initial state and what
\* one or two mutating operations make of it
SampleOps ==
    {Op("update_context", "production", FALSE, EmptyDict),
     Op("record_command", "restart frontend", TRUE, EmptyDict),
     Op("record_command", "bad op", FALSE, EmptyDict),
     Op("record_error", "boom", FALSE, EmptyDict),
     Op("update_plugin_state", "kubernetes", FALSE, [replicas |-> 1])}
AgentStates ==
    LET fresh == _create_initial_state(0)
        once == {ApplyUpdate(fresh, op, 1) : op \in SampleOps}
    IN {fresh} \cup once \cup {ApplyUpdate(s, op, 2) : s \in once, op \in SampleOps}

\* d = s.to_dict()
ToDict ==
    /\ objPc = "built"
    /\ objDict' = asdict(objState, 1)
    /\ objPc' = "dumped"
    /\ UNCHANGED <<objState, objLoaded, objBefore, objMutations>>
    /\ UNCHANGED nonObjVars

\* r = AgentState.from_dict(d)
FromDict ==
    /\ objPc = "dumped"
    /\ objMutations = 0
    /\ objLoaded' = cls(objDict, 2)
    /\ objPc' = "loaded"
    /\ UNCHANGED <<objState, objDict, objBefore, objMutations>>
    /\ UNCHANGED nonObjVars

\* the caller changes the dictionary it was given, or a list or dict inside it
MutateDict ==
    /\ objPc \in {"dumped", "loaded"}
    /\ objMutations < MaxMutations
    /\ \E id \in Ids(objDict), key \in MutationKeys :
          /\ objDict' = AfterMutation(objDict, id, key)
          /\ objState' = AfterMutation(objState, id, key)
          /\ objLoaded' = AfterMutation(objLoaded, id, key)
    /\ objMutations' = objMutations + 1
    /\ UNCHANGED <<objPc, objBefore>>
    /\ UNCHANGED nonObjVars

\* no AgentState object is converted
ObjUnused ==
    /\ objPc = "unused"
    /\ objState = NoObject
    /\ objDict = NoObject
    /\ objLoaded = NoObject
    /\ objBefore = <<>>
    /\ objMutations = 0

(***************************************************************************)
(* The entry points of the agent of devops_gpt_core.py: the HTTP endpoint  *)
(* of devops_gpt_api.py, ExtendedDevOpsGPT.process_command of              *)
(* devops_gpt_plugins.py and the interactive session of DevOpsGPTCLI       *)
(***************************************************************************)
\* the mode names a request may carry
ModeNames == {"dry_run", "confirm", "execute", "EXECUTE", "turbo"}

\* str.upper() on the mode names
UpperName(name) ==
    CASE name = "dry_run" -> "DRY_RUN"
      [] name = "confirm" -> "CONFIRM"
      [] name \in {"execute", "EXECUTE"} -> "EXECUTE"
      [] name = "turbo" -> "TURBO"

\* the members of the enum ExecutionMode by name: what ExecutionMode[name] looks up
ExecutionModeMembers == [DRY_RUN |-> DRY_RUN, CONFIRM |-> CONFIRM, EXECUTE |-> EXECUTE]

\* mode = ExecutionMode[request.mode.upper()]; None stands for the KeyError
api_mode(mode_name) ==
    IF UpperName(mode_name) \in DOMAIN ExecutionModeMembers
    THEN ExecutionModeMembers[UpperName(mode_name)]
    ELSE None

\* mode_map of ExtendedDevOpsGPT.process_command
mode_map == [dry_run |-> DRY_RUN, confirm |-> CONFIRM, execute |-> EXECUTE]

\* a lookup in which a name that is not a key of mode_map means EXECUTE
mode_map_get_or_execute(mode_name) ==
    IF mode_name \in DOMAIN mode_map THEN mode_map[mode_name] ELSE EXECUTE

\* mode_map.get(execution_mode, ExecutionMode.DRY_RUN)
mode_map_get(mode_name) ==
    IF mode_name \in DOMAIN mode_map THEN mode_map[mode_name] ELSE DRY_RUN

\* the command texts sent through the entry points
FrontTexts ==
    { <<" ", "R", "e", "s", "t", "a", "r", "t", " ", "a", "p", "i">>,
      <<"r", "o", "l", "l", "b", "a", "c", "k", " ", "p", "o", "d", "s", " ", "w", "e", "b">>,
      <<"s", "t", "a", "t", "u", "s">> }

\* the words run_interactive treats itself
QuitWords == { <<"q", "u", "i", "t">>, <<"e", "x", "i", "t">> }
HelpWord == <<"h", "e", "l", "p">>
ExecuteWord == <<"e", "x", "e", "c", "u", "t", "e">>
\* the lines a user types at the prompt
CliLines ==
    { <<"q", "u", "i", "t">>, <<"h", "e", "l", "p">>, <<"e", "x", "e", "c", "u", "t", "e">>, <<" ", "E", "x", "e", "c", "u", "t", "e", " ">>,
      <<" ", "R", "e", "s", "t", "a", "r", "t", " ", "a", "p", "i">> }

FrontRequest(via, text, mode_name, mode) ==
    [via |-> via, text |-> text, mode_name |-> mode_name, mode |-> mode]

\* what the caller of an entry point receives: the JSON object of the endpoint, the
\* error response FastAPI makes of an HTTPException, the ExecutionResult object, or
\* the lines _display_result prints
ResponseKeys == {"success", "output", "error", "metadata"}
NoResponse == [kind |-> "none", status |-> 0, keys |-> {}, success |-> FALSE]
JsonResponse(result) ==
    [kind |-> "json", status |-> 200, keys |-> ResponseKeys, success |-> result.success]
HTTPException(status_code) ==
    [kind |-> "http_error", status |-> status_code, keys |-> {"detail"}, success |-> FALSE]
ResultObject(result) ==
    [kind |-> "ExecutionResult", status |-> 0,
     keys |-> {"success", "output", "error", "execution_time", "command_executed", "metadata"},
     success |-> result.success]
Displayed(result) ==
    [kind |-> "displayed", status |-> 0, keys |-> {}, success |-> result.success]

NoSession == [lines |-> <<>>, execution_mode |-> "unbound", over |-> FALSE]

\* POST /command: the mode is looked up, process_command is awaited; whatever is
\* raised becomes HTTPException(status_code=500)
api_execute_command ==
    /\ frontReq.via = "api"
    /\ frontPc = "idle"
    /\ corePc = "idle"
    /\ frontCalls < MaxFrontCalls
    /\ \E text \in FrontTexts, mode_name \in ModeNames :
          LET mode == api_mode(mode_name)
          IN /\ frontReq' = FrontRequest("api", text, mode_name, mode)
             /\ IF mode = None
                THEN /\ frontResponse' = HTTPException(500)
                     /\ frontPc' = "idle"
                     /\ UNCHANGED coreVars
                ELSE /\ coreCalls < MaxCoreCalls
                     /\ BeginProcess(text, mode)
                     /\ frontResponse' = NoResponse
                     /\ frontPc' = "calling"
    /\ frontCalls' = frontCalls + 1
    /\ UNCHANGED cli
    /\ UNCHANGED nonFrontVars

\* the endpoint returns the dict made of the result
ApiRespond ==
    /\ frontReq.via = "api"
    /\ frontPc = "calling"
    /\ corePc = "idle"
    /\ frontResponse' = JsonResponse(coreResult)
    /\ frontPc' = "idle"
    /\ UNCHANGED <<frontReq, cli, frontCalls>>
    /\ UNCHANGED coreVars
    /\ UNCHANGED nonFrontVars

\* ExtendedDevOpsGPT.process_command(user_input, execution_mode)
extended_process_command ==
    /\ frontReq.via = "extended"
    /\ frontPc = "idle"
    /\ corePc = "idle"
    /\ frontCalls < MaxFrontCalls
    /\ coreCalls < MaxCoreCalls
    /\ \E text \in FrontTexts, mode_name \in ModeNames :
          /\ frontReq' = FrontRequest("extended", text, mode_name, mode_map_get(mode_name))
          /\ BeginProcess(text, mode_map_get(mode_name))
    /\ frontResponse' = NoResponse
    /\ frontPc' = "calling"
    /\ frontCalls' = frontCalls + 1
    /\ UNCHANGED cli
    /\ UNCHANGED nonFrontVars

\* it returns what the agent's process_command returned
ExtendedReturn ==
    /\ frontReq.via = "extended"
    /\ frontPc = "calling"
    /\ corePc = "idle"
    /\ frontResponse' = ResultObject(coreResult)
    /\ frontPc' = "idle"
    /\ UNCHANGED <<frontReq, cli, frontCalls>>
    /\ UNCHANGED coreVars
    /\ UNCHANGED nonFrontVars

\* DevOpsGPTCLI.run_interactive is entered: the banner is printed, the loop begins
run_interactive ==
    /\ frontReq.via = "cli"
    /\ frontPc = "idle"
    /\ ~cli.over
    /\ frontPc' = "prompt"
    /\ UNCHANGED <<frontReq, frontResponse, cli, frontCalls>>
    /\ UNCHANGED coreVars
    /\ UNCHANGED nonFrontVars

\* one turn of the loop: a line is read and stripped; quit and exit end the loop, help
\* and execute are answered and the loop continues, anything else is processed
CliInput ==
    /\ frontReq.via = "cli"
    /\ frontPc = "prompt"
    /\ corePc = "idle"
    /\ frontCalls < MaxFrontCalls
    /\ \E line \in CliLines :
          LET user_input == StripText(line)
              word == LowerText(user_input)
          IN CASE word \in QuitWords ->
                    /\ cli' = [cli EXCEPT !.lines = Append(@, line), !.over = TRUE]
                    /\ frontPc' = "idle"
                    /\ UNCHANGED <<frontReq, frontResponse>>
                    /\ UNCHANGED coreVars
               [] word = HelpWord ->
                    /\ cli' = [cli EXCEPT !.lines = Append(@, line)]
                    /\ UNCHANGED <<frontPc, frontReq, frontResponse>>
                    /\ UNCHANGED coreVars
               [] word = ExecuteWord ->
                    /\ cli' = [cli EXCEPT !.lines = Append(@, line),
                                          !.execution_mode = EXECUTE]
                    /\ UNCHANGED <<frontPc, frontReq, frontResponse>>
                    /\ UNCHANGED coreVars
               [] OTHER ->
                    /\ coreCalls < MaxCoreCalls
                    /\ cli' = [cli EXCEPT !.lines = Append(@, line)]
                    /\ frontReq' = FrontRequest("cli", user_input, DRY_RUN, DRY_RUN)
                    /\ BeginProcess(user_input, DRY_RUN)
                    /\ frontResponse' = NoResponse
                    /\ frontPc' = "calling"
    /\ frontCalls' = frontCalls + 1
    /\ UNCHANGED nonFrontVars

\* self._display_result(result), and the loop goes on to the next prompt
CliDisplay ==
    /\ frontReq.via = "cli"
    /\ frontPc = "calling"
    /\ corePc = "idle"
    /\ frontResponse' = Displayed(coreResult)
    /\ frontPc' = "prompt"
    /\ UNCHANGED <<frontReq, cli, frontCalls>>
    /\ UNCHANGED coreVars
    /\ UNCHANGED nonFrontVars

\* no entry point is used
FrontUnused ==
    /\ frontPc = "idle"
    /\ frontReq = FrontRequest("none", <<>>, "none", None)
    /\ frontResponse = NoResponse
    /\ cli = NoSession
    /\ frontCalls = 0

\* the operations the application calls, and the steps of a call in progress
Call(t) ==
    \/ update_context(t)
    \/ record_command(t)
    \/ record_error(t)
    \/ update_plugin_state(t)
    \/ save_state(t)

\* the state after StateManager() in an empty directory
StoreVarsInit(lim) ==
    /\ running = TRUE
    /\ state = _create_initial_state(0)
    /\ lock = 0
    /\ observers = NoObservers
    /\ pc = [t \in Threads |-> "idle"]
    /\ cur = [t \in Threads |-> NoOp]
    /\ notified = [t \in Threads |-> <<>>]
    /\ outcome = [t \in Threads |-> "none"]
    /\ writeFailed = [t \in Threads |-> FALSE]
    /\ primary = AbsentFile
    /\ backups = EmptyDict
    /\ clock = 0
    /\ limits = lim
    /\ ioErrors = 0
    /\ calls = 0
    /\ crashes = 0
    /\ issued = <<>>
    /\ completed = NoneCompleted
    /\ saves = <<>>
    /\ loadInfo = [from |-> "fresh", state |-> _create_initial_state(0),
                   primary |-> "absent", latest_backup |-> AbsentFile]

StoreInit(lim) ==
    StoreVarsInit(lim) /\ LLMUnused /\ AgentUnused /\ CoreUnused /\ FrontUnused /\ ObjUnused

\* Several threads share one store in one run of the process.
Init ==
    StoreInit([threads |-> MaxThreads, calls |-> MaxCalls, clock |-> MaxClock,
               io_errors |-> MaxIOErrors])

Next ==
    \/ \E t \in Threads : Call(t) \/ ThreadStep(t)
    \/ Tick

Spec == Init /\ [][Next]_vars

\* every thread that can take a step eventually takes one (the interpreter schedules
\* every runnable thread)
Fairness == \A t \in Threads : WF_vars(ThreadStep(t))
FairSpec == Spec /\ Fairness

\* One thread uses a store that has observers, and file writes may fail.
ObserverInit ==
    StoreInit([threads |-> 1, calls |-> MaxFewCalls, clock |-> 0,
               io_errors |-> MaxIOErrors])

ObserverNext ==
    \/ \E t \in Threads : Call(t) \/ ThreadStep(t)
    \/ register_observer

ObserverSpec == ObserverInit /\ [][ObserverNext]_vars
FairObserverSpec == ObserverSpec /\ Fairness

\* One thread saves the state again and again while time passes.
RetentionInit ==
    StoreInit([threads |-> 1, calls |-> MaxSeqCalls, clock |-> MaxSeqClock,
               io_errors |-> MaxIOErrors])

RetentionSpec == RetentionInit /\ [][Next]_vars

\* One thread uses the store; the process may crash at any point and be started again.
RecoveryInit ==
    StoreInit([threads |-> 1, calls |-> MaxFewCalls, clock |-> MaxClock,
               io_errors |-> MaxIOErrors])

RecoveryNext ==
    \/ \E t \in Threads : Call(t) \/ ThreadStep(t)
    \/ Tick
    \/ Crash
    \/ Start

RecoverySpec == RecoveryInit /\ [][RecoveryNext]_vars

\* A provider object is built and generate_response is called on it; the store is not
\* used.
LLMInit ==
    /\ StoreVarsInit([threads |-> 0, calls |-> 0, clock |-> 0, io_errors |-> 0])
    /\ llm \in Providers
    /\ llmConfig = NoLLMConfig
    /\ llmPc = "idle"
    /\ llmReq = [prompt |-> "none", max_tokens |-> NoMaxTokens]
    /\ llmLog = <<>>
    /\ llmExc = NoExc
    /\ llmResult = NoResult
    /\ llmCalls = 0
    /\ AgentUnused
    /\ CoreUnused
    /\ FrontUnused
    /\ ObjUnused

LLMNext ==
    \/ generate_response
    \/ PrimaryRequest
    \/ SecondaryRequest
    \/ FallbackInRequest
    \/ FallbackInExcept

LLMSpec == LLMInit /\ [][LLMNext]_vars

\* An agent is built and execute_command is called on it; the store and the providers
\* are not used.
AgentInit ==
    /\ StoreVarsInit([threads |-> 0, calls |-> 0, clock |-> 0, io_errors |-> 0])
    /\ LLMUnused
    /\ agent \in [config : AgentConfigs, plugins : AgentRegistries]
    /\ agentPc = "idle"
    /\ agentReq = [command |-> "none", dry_run |-> TRUE]
    /\ agentIntent = NoIntent
    /\ agentPlugin = None
    /\ agentSteps = <<>>
    /\ agentResult = NoAgentResult
    /\ agentCalls = 0
    /\ CoreUnused
    /\ FrontUnused
    /\ ObjUnused

AgentNext ==
    \/ execute_command
    \/ _parse_command
    \/ CheckPolicy
    \/ SelectPlugin
    \/ PluginExecute

AgentSpec == AgentInit /\ [][AgentNext]_vars

\* An agent of devops_gpt_core.py is built, alone or by ExtendedDevOpsGPT, and
\* process_command is called on it; nothing else is used.
CoreInit ==
    /\ StoreVarsInit([threads |-> 0, calls |-> 0, clock |-> 0, io_errors |-> 0])
    /\ LLMUnused
    /\ AgentUnused
    /\ core \in CoreRegistries
    /\ corePc = "idle"
    /\ coreReq = [user_input |-> <<>>, execution_mode |-> DRY_RUN]
    /\ coreCommand = NoCommand
    /\ corePlugin = None
    /\ coreEffects = <<>>
    /\ coreResult = NoExecutionResult
    /\ coreCalls = 0
    /\ coreAudit = <<>>
    /\ coreContext = NoSessionContext
    /\ FrontUnused
    /\ ObjUnused

CoreNext ==
    \/ process_command
    \/ RoutePlugin
    \/ ExecutePlugin

CoreSpec == CoreInit /\ [][CoreNext]_vars

\* One of the two agents is built and commands are given to it.
AgentsInit == CoreInit \/ AgentInit
AgentsNext == CoreNext \/ AgentNext
AgentsSpec == AgentsInit /\ [][AgentsNext]_vars

\* An AgentState is converted to a dictionary and back, and the caller changes the
\* dictionary.
ObjInit ==
    /\ StoreVarsInit([threads |-> 0, calls |-> 0, clock |-> 0, io_errors |-> 0])
    /\ LLMUnused
    /\ AgentUnused
    /\ CoreUnused
    /\ FrontUnused
    /\ objPc = "built"
    /\ objState \in {Object(s) : s \in AgentStates}
    /\ objDict = NoObject
    /\ objLoaded = NoObject
    /\ objBefore = Value(objState)
    /\ objMutations = 0

ObjNext ==
    \/ ToDict
    \/ FromDict
    \/ MutateDict

ObjSpec == ObjInit /\ [][ObjNext]_vars

\* An agent of devops_gpt_core.py is built behind one of its entry points and requests
\* come in through that entry point: DevOpsGPT() behind the endpoint and the
\* interactive session, the agent with the added plugins inside ExtendedDevOpsGPT.
FrontInit ==
    /\ StoreVarsInit([threads |-> 0, calls |-> 0, clock |-> 0, io_errors |-> 0])
    /\ LLMUnused
    /\ AgentUnused
    /\ ObjUnused
    /\ core \in CoreRegistries
    /\ corePc = "idle"
    /\ coreReq = [user_input |-> <<>>, execution_mode |-> DRY_RUN]
    /\ coreCommand = NoCommand
    /\ corePlugin = None
    /\ coreEffects = <<>>
    /\ coreResult = NoExecutionResult
    /\ coreCalls = 0
    /\ coreAudit = <<>>
    /\ coreContext = NoSessionContext
    /\ frontPc = "idle"
    /\ \E via \in IF Len(core.plugins) = 1 THEN {"api", "cli"} ELSE {"extended"} :
          frontReq = FrontRequest(via, <<>>, "none", None)
    /\ frontResponse = NoResponse
    /\ cli = NoSession
    /\ frontCalls = 0

FrontNext ==
    \/ api_execute_command
    \/ ApiRespond
    \/ extended_process_command
    \/ ExtendedReturn
    \/ run_interactive
    \/ CliInput
    \/ CliDisplay
    \/ RoutePlugin
    \/ ExecutePlugin

FrontSpec == FrontInit /\ [][FrontNext]_vars

\* A provider is made by create_llm_provider from a config, as DevOpsGPT.setup does,
\* and generate_response is called on it.
FactoryInit ==
    /\ StoreVarsInit([threads |-> 0, calls |-> 0, clock |-> 0, io_errors |-> 0])
    /\ llmConfig \in LLMConfigs
    /\ llm = create_llm_provider(llmConfig)
    /\ llmPc = "idle"
    /\ llmReq = [prompt |-> "none", max_tokens |-> NoMaxTokens]
    /\ llmLog = <<>>
    /\ llmExc = NoExc
    /\ llmResult = NoResult
    /\ llmCalls = 0
    /\ AgentUnused
    /\ CoreUnused
    /\ FrontUnused
    /\ ObjUnused

FactoryNext ==
    \/ generate_response
    \/ PrimaryRequest
    \/ SecondaryRequest

FactorySpec == FactoryInit /\ [][FactoryNext]_vars

(***************************************************************************)
(* Properties of the State Store                                           *)
(***************************************************************************)
InMutation(t) == pc[t] = "op_lock" /\ cur[t].name \in MutatingOps
Returned(t) == pc[t] = "idle" /\ outcome[t] = "returned"

\* C1: a call of a mutating operation (update_context, record_command, record_error,
\* update_plugin_state) made while no other thread holds the store's lock eventually
\* returns to its caller.
C1_MutationReturns ==
    \A t \in Threads : (InMutation(t) /\ lock = 0) ~> Returned(t)

\* how many of the issued record_command calls had this success flag
Issued(success) == Cardinality({i \in 1..Len(issued) : issued[i].success = success})

\* execution_history holds one entry per issued call, in call order
HistoryAsIssued ==
    /\ Len(state.execution_history) = Len(issued)
    /\ \A i \in 1..Len(issued) :
          /\ state.execution_history[i].command = issued[i].command
          /\ state.execution_history[i].success = issued[i].success

InRecording(t) == pc[t] # "idle" /\ cur[t].name = "record_command"

\* C2: a record_command call issued while no other call is in progress (the calls come
\* one after another) returns, and then successful_commands and failed_commands count
\* the calls made with success true and false and execution_history holds one entry
\* per call, in call order.
C2_SequentialRecordings ==
    \A t \in Threads :
        (pc[t] = "op_lock" /\ cur[t].name = "record_command"
            /\ \A u \in Threads \ {t} : pc[u] = "idle")
        ~> (/\ Returned(t)
            /\ state.successful_commands = Issued(TRUE)
            /\ state.failed_commands = Issued(FALSE)
            /\ HistoryAsIssued)

\* C3: record_command calls made by several threads at the same time all complete, and
\* once M calls with success true and F calls with success false have completed,
\* successful_commands = M and failed_commands = F.
C3_ConcurrentRecordings ==
    (\E t, u \in Threads : t # u /\ InRecording(t) /\ InRecording(u))
    ~> (/\ \A t \in Threads : ~InRecording(t)
        /\ completed[TRUE] + completed[FALSE] = Len(issued)
        /\ state.successful_commands = completed[TRUE]
        /\ state.failed_commands = completed[FALSE])

\* C4: at every instant the primary state file holds a complete state (or does not
\* exist yet); a truncated or partially written primary file is never there to be read.
C4_PrimaryNeverPartial == primary.kind # "partial"

\* C5: a start that finds the primary file absent or unparsable and whose most recently
\* created backup file is readable loads the content of that backup.
C5_LoadsLatestBackup ==
    (running /\ loadInfo.primary # "full" /\ Parsable(loadInfo.latest_backup))
    => (loadInfo.from = "backup" /\ loadInfo.state = from_dict(loadInfo.latest_backup.data))

\* the states written by the last n completed saves
LastSaves(n) == {saves[i] : i \in (Len(saves) - n + 1)..Len(saves)}

\* C6: once save_state has completed keep_last (5) or more times without a failed
\* write, whatever the timing between the saves, exactly keep_last backup files exist
\* and they hold the states of the keep_last most recent saves.
C6_KeepsLastBackups ==
    ((\A t \in Threads : pc[t] = "idle") /\ ioErrors = 0 /\ Len(saves) >= keep_last)
    => (/\ Cardinality(DOMAIN backups) = keep_last
        /\ \A n \in DOMAIN backups : Parsable(backups[n])
        /\ {backups[n].data : n \in DOMAIN backups} = LastSaves(keep_last))

\* the callbacks of the event that the thread's current operation has called
Called(t, event) == {notified[t][i].index : i \in {j \in 1..Len(notified[t]) :
                                                    notified[t][j].event = event}}
AllCalled(t, event) == Called(t, event) = 1..Len(observers[event])
HasRaising(event) == \E i \in 1..Len(observers[event]) : observers[event][i] = "raises"

\* C7: a mutating operation one of whose observers raises is not aborted by it: every
\* observer registered for its event is called, the one that raises and the ones after
\* it, and the operation returns normally to its caller.
C7_RaisingObserverSwallowed ==
    \A t \in Threads :
        (InMutation(t) /\ OwnEvent(cur[t].name) # None /\ HasRaising(OwnEvent(cur[t].name)))
        ~> (\E e \in ObservedEvents :
               Returned(t) /\ HasRaising(e) /\ AllCalled(t, e))

\* C8: a mutating operation during which a write of the primary or of the backup file
\* may fail still returns normally to its caller, and when a write has failed the
\* observers registered for ERROR_OCCURRED have been told.
C8_WriteFailureReported ==
    \A t \in Threads :
        (InMutation(t) /\ ioErrors < limits.io_errors /\ observers[ERROR_OCCURRED] # <<>>)
        ~> (Returned(t) /\ (writeFailed[t] => AllCalled(t, ERROR_OCCURRED)))


(***************************************************************************)
(* Properties of the model providers                                       *)
(***************************************************************************)
\* a call of generate_response has ended
LLMEnded == llmPc = "idle" /\ llmResult.kind # "none"
HasSecondary == llm.secondary # "none"
PrimaryFailed == Len(llmLog) >= 1 /\ llmLog[1].outcome # "ok"
SecondaryRequests == {i \in 1..Len(llmLog) : llmLog[i].role = "secondary"}
\* what the last request to the secondary gave
SecondaryGave ==
    LET last == llmLog[Len(llmLog)]
    IN IF last.outcome = "ok"
       THEN llmResult.kind = "returned" /\ llmResult.value = Response(last.provider, last.prompt)
       ELSE llmResult.kind = "raised" /\ llmResult.value = Exc(last.provider, last.outcome)

\* C9: in a provider with a fallback, once the primary's request has failed in any of
\* the ways it can fail, the secondary is called with the prompt and the max_tokens of
\* the caller's request, and the call ends with what the secondary gave.
C9_FallbackForwardsRequest ==
    /\ \A i \in SecondaryRequests :
          /\ llmLog[i].prompt = llmReq.prompt
          /\ llmLog[i].max_tokens = llmReq.max_tokens
    /\ (LLMEnded /\ HasSecondary /\ PrimaryFailed) =>
          (SecondaryRequests # {} /\ SecondaryGave)

\* the primary and the secondary of a FallbackLLMProvider have both failed
BothFailed ==
    /\ llm.class = "FallbackLLMProvider"
    /\ LLMEnded
    /\ Len(llmLog) = 2
    /\ llmLog[1].outcome # "ok"
    /\ llmLog[2].outcome # "ok"

C11_AtMostOneFallback == Cardinality(SecondaryRequests) <= 1

(***************************************************************************)
(* Properties of the agent of core/agent.py                                *)
(***************************************************************************)
\* the action is on the list, whatever the case of the letters
OnList(action, list) == \E entry \in list : Lower(entry) = Lower(action)
\* the security policy forbids the intent's action: it is on the restricted list, or
\* the allowed list is not empty and the action is not on it
PolicyForbids ==
    \/ OnList(agentIntent.action, agent.config.restricted_actions)
    \/ /\ agent.config.allowed_actions # {}
       /\ ~OnList(agentIntent.action, agent.config.allowed_actions)
StepsOf(kinds) == {i \in DOMAIN agentSteps : agentSteps[i].step \in kinds}

CoreEnded == corePc = "idle" /\ coreCalls > 0
\* the operations that act on the world outside the process
SideEffects == {"shell", "api"}
\* the handler operations that are not a preview
RealOperations == {"shell", "api", "canned"}
EffectsOfCall == {coreEffects[i].effect : i \in DOMAIN coreEffects}

\* C13: a command processed in CONFIRM mode, for which no confirmation is ever given,
\* does not run its side-effecting operation: its handler is not invoked, or only
\* previews.
C13_ConfirmWaits ==
    coreReq.execution_mode = CONFIRM => EffectsOfCall \cap SideEffects = {}

\* C14: for a command processed as a dry run no handler runs a shell command, an API
\* call or any other operation: the plugin's execute only previews, or refuses.
C14_DryRunOnlyPreviews ==
    /\ coreReq.execution_mode = DRY_RUN => EffectsOfCall \cap RealOperations = {}
    /\ agentReq.dry_run =>
          \A i \in DOMAIN agentSteps :
              agentSteps[i].step = "execute" => agentSteps[i].effect \in {"preview", "rejected"}

\* a dry run reached a handler of devops_gpt_core.py, which previewed
C14_CoreDryRunPreviewed ==
    /\ CoreEnded
    /\ coreReq.execution_mode = DRY_RUN
    /\ \E i \in DOMAIN coreEffects :
          coreEffects[i].handler = "show_logs" /\ coreEffects[i].effect = "preview"
    /\ coreResult.success /\ coreResult.command_executed

\* C15: a result returned for a dry run that reports a command_executed has
\* metadata with dry_run in it.
C15_DryRunMarked ==
    (CoreEnded /\ coreReq.execution_mode = DRY_RUN /\ coreResult.command_executed) =>
        (~coreResult.metadata.none /\ "dry_run" \in coreResult.metadata.keys)

\* C16: the plugin process_command selects is the first one, in registration order,
\* whose category is the command's category; a plugin of another category is never
\* selected.
SameCategory == {i \in DOMAIN core.plugins : plugin_category(core.plugins[i]) = coreCommand.category}
C16_RoutesByCategory ==
    (corePc = "execute" \/ (CoreEnded /\ corePlugin # None)) =>
        /\ SameCategory # {}
        /\ corePlugin = core.plugins[Smallest(SameCategory)]

\* C18: parse returns the Command of the first pattern, in registration order, that
\* matches the stripped, lowercased input: that pattern's intent and category, its
\* named groups as parameters, confidence 0.8, whatever later patterns match.
ParsedText == LowerText(StripText(coreReq.user_input))
C18_FirstPatternWins ==
    coreCalls > 0 =>
        \A i \in DOMAIN intent_patterns :
            (/\ re_search(intent_patterns[i].pattern, ParsedText).ok
             /\ \A j \in 1..(i - 1) : ~re_search(intent_patterns[j].pattern, ParsedText).ok)
            => /\ coreCommand.intent = intent_patterns[i].intent
               /\ coreCommand.category = intent_patterns[i].category
               /\ coreCommand.parameters = re_search(intent_patterns[i].pattern, ParsedText).groups
               /\ coreCommand.confidence = 8
               /\ coreCommand.raw_input = ParsedText

\* an input two patterns match was parsed as the first of them
C18_TwoPatternsMatched ==
    /\ coreCalls > 0
    /\ Cardinality(MatchingPatterns(ParsedText)) >= 2
    /\ coreCommand.intent = "show_logs"
    /\ coreCommand.confidence = 8

\* C19: 'show logs from <name>', <name> a single word, is parsed as show_logs of
\* category troubleshooting with parameters.service the whole word <name>.
ShowLogsFrom == <<"s", "h", "o", "w", " ", "l", "o", "g", "s", " ", "f", "r", "o", "m", " ">>
C19_ServiceIsWholeWord ==
    LET name == SubSeq(ParsedText, Len(ShowLogsFrom) + 1, Len(ParsedText))
    IN (/\ coreCalls > 0
        /\ StartsWith(ParsedText, ShowLogsFrom, 1)
        /\ name # <<>>
        /\ \A i \in DOMAIN name : name[i] \in WordChars)
       => /\ coreCommand.intent = "show_logs"
          /\ coreCommand.category = TROUBLESHOOTING
          /\ "service" \in DOMAIN coreCommand.parameters
          /\ coreCommand.parameters["service"] = name

\* C20: an input no pattern matches becomes a Command of confidence 0.1 with a category
\* of the taxonomy, no plugin's execute is invoked for it, and the no-plugin failure is
\* returned.
C20_UnknownFindsNoHandler ==
    (CoreEnded /\ MatchingPatterns(ParsedText) = {}) =>
        /\ coreCommand.confidence = 1
        /\ coreCommand.category \in TaskCategory
        /\ coreEffects = <<>>
        /\ corePlugin = None
        /\ ~coreResult.success

ResponseMalformed ==
    \E i \in StepsOf({"parse"}) :
        agentSteps[i].effect \in {"empty", "invalid", "malformed", "nondict"}

\* C21: when the provider's response is not a well-formed object conforming to the
\* schema, no policy check passes, no plugin is selected or invoked, and the call ends
\* in a failed result that reports the parse error.
C21_MalformedRejected ==
    ResponseMalformed =>
        /\ StepsOf({"select", "execute"}) = {}
        /\ \A i \in StepsOf({"policy"}) : agentSteps[i].effect # "allowed"
        /\ agentPc = "idle" => (~agentResult.success /\ agentResult.error = "parse failed")

\* C21, its last part: a response that lacks a field of the schema or names a category
\* outside the taxonomy never leads to a successful result.
C21_MalformedNeverSucceeds ==
    (agentPc = "idle" /\ ResponseMalformed) => ~agentResult.success

\* C23: the text the provider returns is never evaluated as code: on the way from the
\* response to the intent no call that the text contains is run.
C23_ResponseNeverEvaluated ==
    \A i \in StepsOf({"parse"}) : agentSteps[i].effect # "ran code"

\* the provider's answer of the current call was the literal of a well-formed dict
ResponseWellFormed ==
    /\ \E i \in StepsOf({"parse"}) : agentSteps[i].effect = "dict"
    /\ agentIntent.type = "dict"
    /\ agentIntent.keys = SchemaKeys
\* the execute steps of the current call
Executions == StepsOf({"execute"})

\* C25: with the restricted and the allowed list both empty, a well-formed intent and
\* a loaded plugin that handles the intent's category, execute_command calls that
\* plugin's execute and returns its result.
C25_EmptyPolicyLetsThrough ==
    (/\ agentPc = "idle"
     /\ ResponseWellFormed
     /\ agent.config.allowed_actions = {}
     /\ agent.config.restricted_actions = {}
     /\ _get_plugin_for_intent(agent.plugins, agentIntent) # None)
    => /\ Executions # {}
       /\ \A i \in Executions :
             /\ agentSteps[i].plugin = _get_plugin_for_intent(agent.plugins, agentIntent)
             /\ \E done \in BOOLEAN :
                   agentResult = PluginExecuteResult(agentSteps[i].effect, done)

(***************************************************************************)
(* Properties of AgentState objects                                        *)
(***************************************************************************)
\* C24: for every AgentState s, from_dict(s.to_dict()) equals s field for field, and a
\* change made to the dictionary to_dict returned, or to a list or dict inside it,
\* does not change s.
C24_RoundTrip ==
    /\ (objPc = "loaded" /\ objMutations = 0) =>
          \A f \in AgentStateFields : Value(objLoaded)[f] = Value(objState)[f]
    /\ objPc \in {"built", "dumped", "loaded"} => Value(objState) = objBefore

\* a state with a recorded command and a plugin entry went through to_dict and
\* from_dict, and the dictionary was then changed
C24_DictionaryChanged ==
    /\ objPc = "loaded"
    /\ objMutations = MaxMutations
    /\ Len(objBefore.execution_history) > 0
    /\ DOMAIN objBefore.plugin_states # {}
    /\ Len(objDict.items.execution_history.items) > Len(objBefore.execution_history)

(***************************************************************************)
(* Properties of the entry points                                          *)
(***************************************************************************)
\* a request made through the entry point has been answered
Answered(via) == frontReq.via = via /\ frontPc = "idle" /\ frontCalls > 0

\* C22: every request to the endpoint, an unrecognised mode name included, is answered
\* with an object of the keys success, output, error and metadata, success a boolean;
\* no error response takes its place.
C22_StructuredOutcome ==
    Answered("api") =>
        /\ frontResponse.kind = "json"
        /\ frontResponse.keys = ResponseKeys
        /\ frontResponse.success \in BOOLEAN

\* the mode name is one of dry_run, confirm, execute
ExactModeName == frontReq.mode_name \in ExecutionMode
\* the same, whatever the case of the letters
FoldedModeName ==
    (IF frontReq.mode_name = "EXECUTE" THEN "execute" ELSE frontReq.mode_name) \in ExecutionMode
\* the request did not reach a handler's operation: ExtendedDevOpsGPT processed it as a
\* dry run, the endpoint called no handler for it
HandledSafely ==
    CASE frontReq.via = "extended" ->
            /\ frontReq.mode = DRY_RUN
            /\ coreReq.execution_mode = DRY_RUN
            /\ EffectsOfCall \cap RealOperations = {}
      [] frontReq.via = "api" ->
            /\ frontReq.mode = None
            /\ frontPc = "idle"
            /\ frontResponse.kind = "http_error"
      [] OTHER -> TRUE

\* C29 as stated: a request whose mode name is not one of dry_run, confirm, execute
\* never runs a handler's operation: ExtendedDevOpsGPT processes it as a dry run and
\* the endpoint invokes no handler for it.
C29_UnknownModeIsSafe ==
    (frontCalls > 0 /\ frontReq.via \in {"api", "extended"} /\ ~ExactModeName)
    => HandledSafely

\* C29: ExtendedDevOpsGPT compares the mode name as it is, the endpoint compares it
\* without regard to case; a request whose mode name is, so compared, not one of
\* dry_run, confirm, execute never runs a handler's operation.
C29_UnrecognisedModeIsSafe ==
    (/\ frontCalls > 0
     /\ \/ frontReq.via = "extended" /\ ~ExactModeName
        \/ frontReq.via = "api" /\ ~FoldedModeName)
    => HandledSafely

\* ExtendedDevOpsGPT was given a mode name it does not know with a command whose
\* handler calls the Kubernetes API, and the handler previewed
C29_UnknownModePreviewed ==
    /\ Answered("extended")
    /\ frontReq.mode_name = "turbo"
    /\ \E i \in DOMAIN coreEffects :
          coreEffects[i].plugin = "kubernetes" /\ coreEffects[i].effect = "preview"
    /\ frontResponse.success

\* the line typed before the last one was 'execute'
AfterExecuteLine ==
    /\ Len(cli.lines) >= 2
    /\ LowerText(StripText(cli.lines[Len(cli.lines) - 1])) = ExecuteWord

\* C30: in the interactive session the command entered after 'execute' is processed in
\* EXECUTE mode, and a command that does not follow 'execute' is processed as a dry
\* run.
C30_ExecuteSwitchesNextCommand ==
    (frontReq.via = "cli" /\ frontPc = "calling") =>
        coreReq.execution_mode = IF AfterExecuteLine THEN EXECUTE ELSE DRY_RUN

\* C26: the provider create_llm_provider returns for a config with the fallback flag
\* set and credentials for the secondary, whichever of openai and ollama is the
\* primary, asks a secondary provider when the primary fails: the primary's failure
\* alone never ends the call.
C26_FactoryWiresFallback ==
    (llmConfig.fallback_provider /\ llmConfig.api_key) =>
        /\ llm # NoProvider
        /\ (LLMEnded /\ PrimaryFailed) => SecondaryRequests # {}

\* the fields of AgentState a mutating operation writes
OwnFields(name) ==
    CASE name = "update_context" -> {"current_context"}
      [] name = "record_command" ->
            {"last_command", "total_execution_time", "successful_commands",
             "failed_commands", "execution_history"}
      [] name = "record_error" -> {"error_count", "last_error"}
      [] name = "update_plugin_state" -> {"plugin_states"}
      [] OTHER -> {}

\* what the operation op makes of the state s, as the claim words it
ChangesAsClaimed(op, s, after) ==
    /\ \A f \in AgentStateFields \ OwnFields(op.name) : after[f] = s[f]
    /\ op.name = "update_context" => after.current_context = op.arg
    /\ op.name = "record_error" =>
          (after.error_count = s.error_count + 1 /\ after.last_error = op.arg)
    /\ op.name = "update_plugin_state" =>
          /\ DOMAIN after.plugin_states = DOMAIN s.plugin_states \cup {op.arg}
          /\ after.plugin_states[op.arg] = op.data
          /\ \A n \in DOMAIN s.plugin_states \ {op.arg} :
                after.plugin_states[n] = s.plugin_states[n]
    /\ op.name = "record_command" =>
          /\ after.last_command = op.arg
          /\ after.total_execution_time = s.total_execution_time + ExecTime(op.arg)
          /\ after.successful_commands + after.failed_commands
                = s.successful_commands + s.failed_commands + 1
          /\ after.successful_commands = s.successful_commands + (IF op.success THEN 1 ELSE 0)
          /\ Len(after.execution_history) = Len(s.execution_history) + 1
          /\ SubSeq(after.execution_history, 1, Len(s.execution_history)) = s.execution_history
          /\ after.execution_history[Len(after.execution_history)].command = op.arg

\* C28: the in-memory state changes only when a mutating operation applies its
\* update, and then only in that operation's own fields: update_context writes
\* current_context; record_error error_count (+1) and last_error; update_plugin_state
\* the named plugin's entry; record_command last_command, total_execution_time, one of
\* the two counters (+1) and one entry appended to execution_history.
C28_OnlyOwnFields ==
    [][state' # state =>
          \E t \in Threads :
              /\ pc[t] = "op_mutate"
              /\ pc'[t] = "save_lock"
              /\ cur[t].name \in MutatingOps
              /\ ChangesAsClaimed(cur[t], state, state')]_vars

\* a state in which record_command has just applied its update for a failed command
C28_FailedCommandRecorded ==
    \E t \in Threads :
        /\ pc[t] = "save_lock"
        /\ cur[t].name = "record_command"
        /\ ~cur[t].success
        /\ state.failed_commands = 1
        /\ state.successful_commands = 0
        /\ Len(state.execution_history) = 1
        /\ state.last_command = cur[t].arg

\* C27: every mutating operation that has an event calls the observers registered for
\* that event.
C27_ObserversNotified ==
    \A t \in Threads :
        (InMutation(t) /\ OwnEvent(cur[t].name) # None
            /\ observers[OwnEvent(cur[t].name)] # <<>>)
        ~> (\E e \in ObservedEvents : observers[e] # <<>> /\ AllCalled(t, e))

====
